---- MODULE Spec2Model ----
(***************************************************************************)
(* A model of epg-manager: the grab orchestrator (services/grabber.ts),    *)
(* its health tracking (site_status, channel_grab_status), the lineup      *)
(* table and the channel matching passes (services/playlist.ts,            *)
(* services/epg.ts), with the HTTP handlers that change the same rows.     *)
(*                                                                         *)
(* Scheduling.  The program is one Node.js process.  The storage client is *)
(* created on a file: URL (db.ts:11-13); a statement runs inside the call  *)
(* to db.execute and the awaiting code resumes as a microtask.  Microtasks *)
(* run to completion before the event loop delivers the next I/O callback  *)
(* (the exit of a grabber process, a chunk of a file stream, an HTTP       *)
(* request, a timer).  One action of the model is therefore one such       *)
(* segment of a task: from the delivery of an external event up to the     *)
(* next wait on an external event.  The pool loop of grabMissingChannels   *)
(* starts channels in the same segment in which a slot frees; the model    *)
(* takes these starts one at a time (StartChannel) and delivers no         *)
(* external event while a start is pending (QueueEmpty).                   *)
(***************************************************************************)
EXTENDS Integers, Sequences, FiniteSets, TLC

VARIABLES
    clock,                \* Date.now(), in milliseconds
    channels,             \* table channels: lineup id -> row
    manual_overrides,     \* table manual_overrides: lineup id -> epg_id or NULL
    iptv_org_map,         \* table iptv_org_map: set of rows
    epg_channels,         \* table epg_channels: set of rows (id, source, display_name)
    site_status,          \* table site_status: site -> row or NoRow
    channel_grab_status,  \* table channel_grab_status: xmltv_id -> row or NoRow
    grab_logs,            \* table grab_logs, by xmltv_id, each in insertion order
    run,                  \* the locals of the grabMissingChannels call in progress
    task,                 \* xmltv_id -> the locals of its processChannel call
    env,                  \* the environment: what the grabber can do, how many runs are
                          \* made; and the preferred_lang row of table settings
    runs,                 \* number of grabMissingChannels calls so far
    calls,                \* history: xmltv_id -> the grabber invocations of this run
    tripped,              \* history: site -> time of the failure that left it at the threshold
    lastDisableAt,        \* history: xmltv_id -> consecutive_failures at its latest auto-disable
    autoOff,              \* history: lineup id -> the xmltv_ids whose auto-disable switched it off
    epg_programs,         \* table epg_programs: the rows in insertion order
    tvmaze_cache,         \* table tvmaze_cache: set of rows, one for a title_normalized
    enrich,               \* the locals of the enrichProgramsWithMetadata call in progress
    enrichLog,            \* history: the programs and the time at the start of the latest
                          \* pass, and whether a source has been ingested since
    numbered,             \* history: the pairs <<lineup id, channel_number>> written so far
    currentJob,           \* job.ts: the module's JobStatus object
    status,               \* the object a caller holds from its latest getJobStatus()
    sync,                 \* the runFullSync call in progress, and whether the latest
                          \* call returned at its guard
    grabs,                \* grabMissingChannels calls in progress, by caller
    flush,                \* xmltv_id -> where the commitBatch call of its ingest stands
    conn,                 \* the storage connection: whether a transaction is open, and
                          \* the rows inserted within it
    persisted             \* the rows of epg_programs that are committed

vars == <<clock, channels, manual_overrides, iptv_org_map, epg_channels, site_status,
          channel_grab_status, grab_logs, run, task, env, runs, calls, tripped,
          lastDisableAt, autoOff, epg_programs, tvmaze_cache, enrich, enrichLog, numbered,
          currentJob, status, sync, grabs, flush, conn, persisted>>

lineupVars == <<channels, manual_overrides, autoOff>>
corpusVars == <<iptv_org_map, epg_channels>>
healthVars == <<site_status, channel_grab_status, grab_logs, tripped, lastDisableAt>>
runVars    == <<run, task, runs, calls>>
enrichVars == <<tvmaze_cache, enrich, enrichLog>>
jobVars    == <<currentJob, status, sync, grabs>>
flushVars  == <<flush, conn, persisted>>
restVars   == <<epg_programs, numbered, enrichVars, jobVars, flushVars>>

\* ------------------------------------------------------------------ constants

MAX_FAILURES_BEFORE_SKIP == 3
RETRY_INTERVAL_MS == 20 * 60 * 60 * 1000
MAX_CHANNEL_FAILURES_BEFORE_DISABLE == 5
CONCURRENCY_LIMIT == 10

\* ------------------------------------------------------------------ bounds

MaxRuns == 1        \* grabMissingChannels calls in one behaviour
MaxTicks == 2       \* clock advances in one behaviour
PoolExtra == 1      \* channels beyond CONCURRENCY_LIMIT in the pool configuration
MaxNumbers == 4     \* display numbers a lineup may use, from 700 on
MaxHalfTtls == 3    \* advances of the clock by half the life of a cache entry

TickMs == RETRY_INTERVAL_MS \div 2   \* one clock advance: ten hours
RetryRuns == MaxRuns + 1             \* a run and the runs after it


NULL == "NULL"
NoRow == [absent |-> TRUE]
None == -1

\* ------------------------------------------------------------------ ordering

\* The strings of the model in SQLite's BINARY collation order.
Collation ==
    <<"G1", "G2", "X1", "X2", "X3", "a.com", "b.com", "c1", "c2", "c3",
      "p01", "p02", "p03", "p04", "p05", "p06", "p07", "p08", "p09", "p10", "p11",
      "p12", "p13">>

Rank(s) == CHOOSE i \in 1..Len(Collation) : Collation[i] = s

RECURSIVE SortRows(_)
\* ORDER BY m.xmltv_id, m.site
SortRows(S) ==
    IF S = {} THEN <<>>
    ELSE LET m == CHOOSE r \in S : \A q \in S :
                     \/ Rank(r.xmltv_id) < Rank(q.xmltv_id)
                     \/ /\ r.xmltv_id = q.xmltv_id
                        /\ Rank(r.site) <= Rank(q.site)
         IN <<m>> \o SortRows(S \ {m})

RECURSIVE Dedup(_)
\* the keys of a Map in insertion order
Dedup(s) ==
    IF s = <<>> THEN <<>>
    ELSE LET r == Dedup(SubSeq(s, 1, Len(s) - 1))
         IN IF \E i \in 1..Len(r) : r[i] = s[Len(s)] THEN r ELSE Append(r, s[Len(s)])

\* ------------------------------------------------------------------ health tracker

\* shouldSkipSite with the window closed at its end: a site is still skipped
\* exactly 20 hours after its last attempt.
shouldSkipSiteClosedWindow(ss, site, now) ==
    /\ ss[site] # NoRow
    /\ ss[site].failure_count >= MAX_FAILURES_BEFORE_SKIP
    /\ (now - ss[site].last_attempt) <= RETRY_INTERVAL_MS

\* A site_status row is [last_attempt, failure_count]; the column last_success is
\* written by recordSiteAttempt and read by nothing, and is left out.
\* Number(row.failure_count) || 0 and Number(row.last_attempt) || 0 are the
\* columns themselves: recordSiteAttempt never stores NULL in either.
shouldSkipSite(ss, site, now) ==
    IF ss[site] = NoRow THEN FALSE
    ELSE LET failureCount == ss[site].failure_count
             lastAttempt == ss[site].last_attempt
         IN IF failureCount >= MAX_FAILURES_BEFORE_SKIP
            THEN (now - lastAttempt) < RETRY_INTERVAL_MS
            ELSE FALSE

recordSiteAttempt(ss, site, success, now) ==
    IF success
    THEN [ss EXCEPT ![site] = [last_attempt |-> now, failure_count |-> 0]]
    ELSE [ss EXCEPT ![site] =
             IF @ = NoRow
             THEN [last_attempt |-> now, failure_count |-> 1]
             ELSE [last_attempt |-> now, failure_count |-> @.failure_count + 1]]

\* recordChannelGrabResult whose success branch resets the counter and leaves
\* auto_disabled as it was.
recordChannelGrabResultKeepsFlag(db, xmltvId, success) ==
    LET upserted == [db.cgs EXCEPT ![xmltvId] =
                        IF success
                        THEN [consecutive_failures |-> 0,
                              auto_disabled |-> IF @ = NoRow THEN 0 ELSE @.auto_disabled]
                        ELSE IF @ = NoRow
                        THEN [consecutive_failures |-> 1, auto_disabled |-> 0]
                        ELSE [@ EXCEPT !.consecutive_failures = @ + 1]]
        disable == ~success /\ upserted[xmltvId].consecutive_failures
                                   >= MAX_CHANNEL_FAILURES_BEFORE_DISABLE
    IN [cgs |-> IF disable THEN [upserted EXCEPT ![xmltvId].auto_disabled = 1]
                ELSE upserted,
        channels |-> [c \in DOMAIN db.channels |->
                        IF disable /\ (\/ db.channels[c].matched_epg_id = xmltvId
                                       \/ db.overrides[c] = xmltvId)
                        THEN [db.channels[c] EXCEPT !.enabled = 0]
                        ELSE db.channels[c]],
        wasDisabled |-> disable]

\* A channel_grab_status row is [consecutive_failures, auto_disabled]; the
\* timestamps last_success and last_failure are read by nothing and left out.
\* db is [cgs, channels, overrides]; the result carries the two tables written
\* and the function's return value.
recordChannelGrabResult(db, xmltvId, success) ==
    IF success
    THEN [cgs |-> [db.cgs EXCEPT ![xmltvId] =
                      [consecutive_failures |-> 0, auto_disabled |-> 0]],
          channels |-> db.channels,
          wasDisabled |-> FALSE]
    ELSE LET upserted == [db.cgs EXCEPT ![xmltvId] =
                             IF @ = NoRow
                             THEN [consecutive_failures |-> 1, auto_disabled |-> 0]
                             ELSE [@ EXCEPT !.consecutive_failures = @ + 1]]
             failures == upserted[xmltvId].consecutive_failures
         IN IF failures >= MAX_CHANNEL_FAILURES_BEFORE_DISABLE
            THEN [cgs |-> [upserted EXCEPT ![xmltvId].auto_disabled = 1],
                  channels |-> [c \in DOMAIN db.channels |->
                                  IF \/ db.channels[c].matched_epg_id = xmltvId
                                     \/ db.overrides[c] = xmltvId
                                  THEN [db.channels[c] EXCEPT !.enabled = 0]
                                  ELSE db.channels[c]],
                  wasDisabled |-> TRUE]
            ELSE [cgs |-> upserted, channels |-> db.channels, wasDisabled |-> FALSE]

\* reEnableChannels(xmltvIds): one UPDATE of each table for every id given.
reEnableStatus(cgs, xmltvIds) ==
    [x \in DOMAIN cgs |->
        IF x \in xmltvIds /\ cgs[x] # NoRow
        THEN [cgs[x] EXCEPT !.consecutive_failures = 0, !.auto_disabled = 0]
        ELSE cgs[x]]

reEnableLineup(chs, xmltvIds) ==
    [c \in DOMAIN chs |->
        IF chs[c].matched_epg_id \in xmltvIds
        THEN [chs[c] EXCEPT !.enabled = 1]
        ELSE chs[c]]

recordGrabLog(logs, xmltvId, site, success, message, programCount) ==
    [logs EXCEPT ![xmltvId] = Append(@, [site |-> site, success |-> success,
                                         message |-> message,
                                         program_count |-> programCount])]

\* ------------------------------------------------------------------ grab orchestrator

\* COALESCE(mo.epg_id, c.matched_epg_id)
EffectiveId(chs, mo, c) == IF mo[c] # NULL THEN mo[c] ELSE chs[c].matched_epg_id

\* runFullSync step 3: the ids of the enabled channels that have a match or an
\* override and a corpus row with a site.
GrabSelection(chs, mo, map) ==
    {x \in {EffectiveId(chs, mo, c) : c \in {d \in DOMAIN chs : chs[d].enabled = 1}} :
        /\ x # NULL
        /\ \E m \in map : m.xmltv_id = x /\ m.site # NULL}

\* The rows grabMissingChannels reads for its ids, in the order of the query.
SiteRows(map, xmltvIds) ==
    SortRows({m \in map : m.xmltv_id \in xmltvIds /\ m.site # NULL})

\* channelSites: the keys in insertion order, and each key's sites in row order.
ChannelList(rows) == Dedup([i \in 1..Len(rows) |-> rows[i].xmltv_id])

ChannelSites(rows, x) ==
    LET mine == SelectSeq(rows, LAMBDA r : r.xmltv_id = x)
    IN [i \in 1..Len(mine) |-> mine[i].site]

IdleTask == [pc |-> "idle", idx |-> 0, lastError |-> "", result |-> "none"]

\* The state a segment of processChannel reads and writes.
World ==
    [ss |-> site_status, cgs |-> channel_grab_status, channels |-> channels,
     logs |-> grab_logs, run |-> run, task |-> task, calls |-> calls,
     tripped |-> tripped, lastDisableAt |-> lastDisableAt, autoOff |-> autoOff]

\* The world a segment ends with becomes the state.  (Here and below a world
\* that is read more than once is first bound as a value, v \in {w}.)
Commit(w) ==
    \E v \in {w} :
        /\ site_status' = v.ss
        /\ channel_grab_status' = v.cgs
        /\ channels' = v.channels
        /\ grab_logs' = v.logs
        /\ run' = v.run
        /\ task' = v.task
        /\ calls' = v.calls
        /\ tripped' = v.tripped
        /\ lastDisableAt' = v.lastDisableAt
        /\ autoOff' = v.autoOff

\* recordSiteAttempt on the world, with the history of the threshold.
SiteAttempt(w, site, success) ==
    CHOOSE out \in
        {[v EXCEPT !.ss = ss2,
                   !.tripped[site] =
                       IF ss2[site].failure_count >= MAX_FAILURES_BEFORE_SKIP
                       THEN clock ELSE @] :
         ss2 \in {recordSiteAttempt(v.ss, site, success, clock) : v \in {w}},
         v \in {w}} : TRUE

\* recordChannelGrabResult on the world, with the history of the auto-disable.
ChannelResult(w, x, success) ==
    CHOOSE out \in
        {[v EXCEPT !.cgs = r.cgs,
                   !.channels = r.channels,
                   !.lastDisableAt[x] =
                       IF r.wasDisabled THEN r.cgs[x].consecutive_failures ELSE @,
                   !.autoOff = [c \in DOMAIN v.autoOff |->
                                   IF v.channels[c].enabled = 1 /\ r.channels[c].enabled = 0
                                   THEN v.autoOff[c] \cup {x} ELSE v.autoOff[c]]] :
         r \in {recordChannelGrabResult(
                    [cgs |-> v.cgs, channels |-> v.channels, overrides |-> manual_overrides],
                    x, success) : v \in {w}},
         v \in {w}} : TRUE

\* A settling after which the pool loop goes on waiting.
SettleStaysActive(w, x) ==
    [w EXCEPT !.run.activePromises = @ \ {x}, !.run.completed = @ + 1]

\* The promise of processChannel settles: the finally callback runs, and the
\* pool loop leaves when no channel is left to start and none is active.
Settle(w, x) ==
    CHOOSE out \in
        {[v EXCEPT !.run.activePromises = @ \ {x},
                   !.run.completed = @ + 1,
                   !.run.active = /\ ~v.run.raised
                                  /\ ~(/\ v.run.channelIndex = Len(v.run.channels)
                                        /\ v.run.activePromises \ {x} = {})] :
         v \in {w}} : TRUE

\* The first index from i on whose site is not skipped, or 0.
FirstEligible(ss, sites, i, now) ==
    IF \E j \in i..Len(sites) : ~shouldSkipSite(ss, sites[j], now)
    THEN CHOOSE j \in i..Len(sites) :
            /\ ~shouldSkipSite(ss, sites[j], now)
            /\ \A k \in i..(j - 1) : shouldSkipSite(ss, sites[k], now)
    ELSE 0

\* The end of processChannel without its recordChannelGrabResult.
ExhaustedUncounted(w, x, lastError) ==
    LET message == IF lastError # "" THEN lastError
                   ELSE "All sites failed or returned 0 programs"
        w1 == [w EXCEPT !.logs = recordGrabLog(@, x, "all", FALSE, message, 0),
                        !.run.failed = @ + 1,
                        !.task[x] = [pc |-> "done", idx |-> w.task[x].idx,
                                     lastError |-> lastError, result |-> "failed"]]
    IN Settle(w1, x)

\* The part of processChannel after all sites failed.
Exhausted(w, x, lastError) ==
    LET message == IF lastError # "" THEN lastError
                   ELSE "All sites failed or returned 0 programs"
        w1 == [w EXCEPT !.logs = recordGrabLog(@, x, "all", FALSE, message, 0)]
        w2 == ChannelResult(w1, x, FALSE)
        w3 == [w2 EXCEPT !.run.failed = @ + 1,
                         !.task[x] = [pc |-> "done", idx |-> w.task[x].idx,
                                      lastError |-> lastError, result |-> "failed"]]
    IN Settle(w3, x)

\* The for loop of processChannel from candidate i on: skipped sites are passed
\* over, the grabber is started for the first other one, and the loop ends in
\* Exhausted when there is none.
TrySites(w, x, i, lastError) ==
    CHOOSE out \in
        {IF j # 0
         THEN [v EXCEPT !.task[x] = [pc |-> "grab", idx |-> j,
                                     lastError |-> lastError, result |-> "none"],
                        !.calls[x] = Append(@, [idx |-> j, res |-> "inflight"]),
                        !.tripped[v.run.sites[x][j]] = None]
         ELSE Exhausted(v, x, lastError) :
         j \in {FirstEligible(v.ss, v.run.sites[x], i, clock) : v \in {w}},
         v \in {w}} : TRUE

\* The success branch of processChannel without its return: the loop goes on
\* to the next candidate.
SucceededNoReturn(w, x, site, count) ==
    LET w1 == [w EXCEPT !.logs = recordGrabLog(@, x, site, TRUE,
                                     "Loaded " \o ToString(count) \o " programs", count)]
        w2 == SiteAttempt(w1, site, TRUE)
        w3 == ChannelResult(w2, x, TRUE)
        w4 == [w3 EXCEPT !.run.successful = @ + 1]
    IN TrySites(w4, x, w.task[x].idx + 1, w.task[x].lastError)

\* The part of processChannel after a count above zero.
Succeeded(w, x, site, count) ==
    LET w1 == [w EXCEPT !.logs = recordGrabLog(@, x, site, TRUE,
                                     "Loaded " \o ToString(count) \o " programs", count)]
        w2 == SiteAttempt(w1, site, TRUE)
        w3 == ChannelResult(w2, x, TRUE)
        w4 == [w3 EXCEPT !.run.successful = @ + 1,
                         !.task[x] = [@ EXCEPT !.pc = "done", !.result = "success"]]
    IN Settle(w4, x)

\* The zero-count branch of processChannel without its recordSiteAttempt.
ZeroProgramsUnrecorded(w, x, site) ==
    LET w1 == [w EXCEPT !.logs = recordGrabLog(@, x, site, FALSE,
                                     "Site returned 0 programs, trying next", 0)]
    IN TrySites(w1, x, w.task[x].idx + 1, site \o " returned 0 programs")

\* The part of processChannel after a count of zero.
ZeroPrograms(w, x, site) ==
    LET w1 == [w EXCEPT !.logs = recordGrabLog(@, x, site, FALSE,
                                     "Site returned 0 programs, trying next", 0)]
        w2 == SiteAttempt(w1, site, FALSE)
    IN TrySites(w2, x, w.task[x].idx + 1, site \o " returned 0 programs")

SetRes(w, x, res) == [w EXCEPT !.calls[x][Len(w.calls[x])].res = res]

QueueEmpty ==
    ~(/\ run.active
      /\ Cardinality(run.activePromises) < CONCURRENCY_LIMIT
      /\ run.channelIndex < Len(run.channels))

\* grabMissingChannels(xmltvIds) up to its pool loop, called with the selection
\* of runFullSync.  It returns at once for no ids and for no corpus rows.
GrabMissingChannels ==
    LET xmltvIds == GrabSelection(channels, manual_overrides, iptv_org_map)
        rows == SiteRows(iptv_org_map, xmltvIds)
        list == ChannelList(rows)
    IN /\ ~run.active
       /\ runs < env.maxRuns
       /\ xmltvIds # {}
       /\ Len(rows) # 0
       /\ runs' = runs + 1
       /\ run' = [active |-> TRUE, channels |-> list,
                  sites |-> [x \in {list[i] : i \in 1..Len(list)} |-> ChannelSites(rows, x)],
                  channelIndex |-> 0, activePromises |-> {},
                  completed |-> 0, successful |-> 0, failed |-> 0,
                  logBase |-> [x \in DOMAIN grab_logs |-> Len(grab_logs[x])],
                  siteBase |-> site_status, raised |-> FALSE, ids |-> xmltvIds]
       /\ task' = [x \in DOMAIN task |-> IdleTask]
       /\ calls' = [x \in DOMAIN calls |-> <<>>]
       /\ UNCHANGED <<clock, lineupVars, corpusVars, healthVars, env, restVars>>

\* The ids POST /api/grab selects: the effective guide ids of the enabled
\* channels that have no program row, whether the corpus knows them or not.
MissingSelection(chs, mo, programs) ==
    {x \in {EffectiveId(chs, mo, c) : c \in {d \in DOMAIN chs : chs[d].enabled = 1}} :
        /\ x # NULL
        /\ ~\E k \in DOMAIN programs : programs[k].channel_id = x}

\* POST /api/grab calls grabMissingChannels(ids) while no other call is under
\* way: the call returns at once when the corpus has no row with a site for
\* any of the ids, and else goes through the ids that have one.
ApiGrab ==
    LET xmltvIds == MissingSelection(channels, manual_overrides, epg_programs)
        rows == SiteRows(iptv_org_map, xmltvIds)
        list == ChannelList(rows)
    IN /\ ~run.active
       /\ runs < env.maxRuns
       /\ xmltvIds # {}
       /\ runs' = runs + 1
       /\ run' = IF Len(rows) = 0
                 THEN [active |-> FALSE, channels |-> <<>>, sites |-> <<>>,
                       channelIndex |-> 0, activePromises |-> {},
                       completed |-> 0, successful |-> 0, failed |-> 0,
                       logBase |-> [x \in DOMAIN grab_logs |-> Len(grab_logs[x])],
                       siteBase |-> site_status, raised |-> FALSE, ids |-> xmltvIds]
                 ELSE [active |-> TRUE, channels |-> list,
                       sites |-> [x \in {list[i] : i \in 1..Len(list)} |->
                                     ChannelSites(rows, x)],
                       channelIndex |-> 0, activePromises |-> {},
                       completed |-> 0, successful |-> 0, failed |-> 0,
                       logBase |-> [x \in DOMAIN grab_logs |-> Len(grab_logs[x])],
                       siteBase |-> site_status, raised |-> FALSE, ids |-> xmltvIds]
       /\ task' = [x \in DOMAIN task |-> IdleTask]
       /\ calls' = [x \in DOMAIN calls |-> <<>>]
       /\ UNCHANGED <<clock, lineupVars, corpusVars, healthVars, env, restVars>>

\* The inner loop without its test of activePromises.size.
StartChannelUncapped ==
    /\ run.active
    /\ run.channelIndex < Len(run.channels)
    /\ LET x == run.channels[run.channelIndex + 1]
           w == [World EXCEPT !.run.channelIndex = @ + 1,
                              !.run.activePromises = @ \cup {x}]
       IN Commit(TrySites(w, x, 1, ""))
    /\ UNCHANGED <<clock, manual_overrides, corpusVars, env, runs, restVars>>

\* One pass of the inner while loop: the next channel is taken, its promise is
\* added to activePromises and processChannel runs up to its first wait.
StartChannel ==
    /\ run.active
    /\ Cardinality(run.activePromises) < CONCURRENCY_LIMIT
    /\ run.channelIndex < Len(run.channels)
    /\ LET x == run.channels[run.channelIndex + 1]
           w == [World EXCEPT !.run.channelIndex = @ + 1,
                              !.run.activePromises = @ \cup {x}]
       IN Commit(TrySites(w, x, 1, ""))
    /\ UNCHANGED <<clock, manual_overrides, corpusVars, env, runs, restVars>>

\* runGrabCommand settles.  reject: the process exits non-zero or fails to
\* spawn.  nofile: it exits zero and its output file does not exist.  file: it
\* exits zero and the file exists; processEpg is called on it.
GrabExit(x) ==
    /\ task[x].pc = "grab"
    /\ QueueEmpty
    /\ \E o \in env.grabberModes :
          LET site == run.sites[x][task[x].idx]
              w == SetRes(World, x, o)
          IN Commit(
               IF o = "reject"
               THEN TrySites(SiteAttempt(w, site, FALSE), x, task[x].idx + 1, "Exit 1: Unknown error")
               ELSE IF o = "nofile"
               THEN TrySites(w, x, task[x].idx + 1, task[x].lastError)
               ELSE [w EXCEPT !.task[x].pc = "ingest"])
    /\ UNCHANGED <<clock, manual_overrides, corpusVars, env, runs, restVars>>

\* The grabber of x fails and the recordSiteAttempt of the catch block rejects
\* with a storage error: processChannel rejects, its finally callback runs,
\* and the Promise.race the pool loop awaits rejects with it, so that
\* grabMissingChannels rejects.  The tasks still in flight go on by themselves.
StorageError(x) ==
    /\ run.active
    /\ task[x].pc = "grab"
    /\ QueueEmpty
    /\ Commit([SetRes(World, x, "reject") EXCEPT
                  !.task[x] = [@ EXCEPT !.pc = "done", !.result = "rejected",
                                        !.lastError = "Exit 1: Unknown error"],
                  !.run.activePromises = @ \ {x},
                  !.run.completed = @ + 1,
                  !.run.active = FALSE,
                  !.run.raised = TRUE])
    /\ UNCHANGED <<clock, manual_overrides, corpusVars, env, runs, restVars>>

\* A feed is what the parser makes of an XMLTV document: the channel elements
\* [id, display_name] and the programme elements [channel, start, title], each
\* in document order.  A document that cannot be fetched, or stops short, gives
\* the elements read up to there.  An attribute the element does not have is
\* undefined in node.attributes: NULL for an id, None for a start.
RECURSIVE InsertOrIgnore(_, _, _)
\* INSERT OR IGNORE INTO epg_channels, under PRIMARY KEY (id, source)
InsertOrIgnore(table, url, chans) ==
    IF chans = <<>> THEN table
    ELSE LET ch == Head(chans)
             row == [id |-> ch.id, source |-> url, display_name |-> ch.display_name]
         IN InsertOrIgnore(IF \E g \in table : g.id = ch.id /\ g.source = url
                           THEN table ELSE table \cup {row},
                           url, Tail(chans))

\* An ingest that replaces the guide channels of every source.
IngestedChannelsReplaceAll(table, url, feed) ==
    InsertOrIgnore({}, url, feed.channels)

\* DELETE FROM epg_channels WHERE source = url, then the batches of the feed
IngestedChannels(table, url, feed) ==
    InsertOrIgnore({g \in table : g.source # url}, url, feed.channels)

\* INSERT INTO epg_programs of the row onclosetag pushed for each programme
\* element: enriched is 0 and tmdb_id NULL by default
ProgramRows(url, progs) ==
    [i \in 1..Len(progs) |->
        [channel_id |-> progs[i].channel, source |-> url, start |-> progs[i].start,
         stop |-> progs[i].stop, title |-> progs[i].title,
         category |-> progs[i].category, rating |-> progs[i].rating,
         enriched |-> 0, tmdb_id |-> None]]

\* An ingest that does not delete the programs the source had.
IngestedProgramsNoPurge(table, url, feed) ==
    table \o ProgramRows(url, feed.programs)

\* DELETE FROM epg_programs WHERE source = url, then the batches of the feed
IngestedPrograms(table, url, feed) ==
    SelectSeq(table, LAMBDA p : p.source # url) \o ProgramRows(url, feed.programs)

\* The elements of a feed that lack a required attribute.
MalformedChannel(ch) == ch.id = NULL
MalformedProgramme(p) == p.channel = NULL \/ p.start = None

\* What the batches of a feed store.  onclosetag pushes every element, so a
\* row of a malformed element carries undefined, and what db.execute does
\* with it is the database client's: it binds NULL, or it throws.  When it
\* throws, the statement stores nothing of its batch and the loop over the
\* chunks is left: the channel batches flushed before stay, and the programme
\* batch, flushed at the end of a stream of fewer than 200, is lost.
Stored(feed) ==
    LET bad == {i \in DOMAIN feed.channels : MalformedChannel(feed.channels[i])}
        badProgramme == \E i \in DOMAIN feed.programs : MalformedProgramme(feed.programs[i])
        flushed == IF bad = {} THEN {Len(feed.channels)}
                   ELSE 0..((CHOOSE i \in bad : \A j \in bad : i <= j) - 1)
    IN IF bad = {} /\ ~badProgramme THEN {feed}
       ELSE {feed} \cup {[channels |-> SubSeq(feed.channels, 1, n), programs |-> <<>>] :
                            n \in flushed}

ProgramCounts == {0, 12}

\* The guide channel the grabber writes for x from site: the id asked for,
\* under the name the corpus has for it there.
Grabbed(x, site) ==
    {[id |-> x, display_name |-> m.name] :
        m \in {r \in iptv_org_map : r.xmltv_id = x /\ r.site = site}}

\* The file the grabber leaves for x: its channel, and count programmes of x.
GrabTitle == <<"n", "e", "w", "s">>

GrabFile(x, site, count) ==
    [channels |-> IF Grabbed(x, site) = {} THEN <<>>
                  ELSE <<CHOOSE g \in Grabbed(x, site) : TRUE>>,
     programs |-> [i \in 1..count |->
                      [channel |-> x, start |-> i, stop |-> i + 1, title |-> GrabTitle,
                       category |-> "", rating |-> ""]]]

\* ------------------------------------------------------------------ job state

\* null for JobStatus.stats, and the stats objects runFullSync builds.
NullStats == [isNull |-> TRUE]
JobStats == {[channelsProcessed |-> n, customGrabCount |-> g] : n \in {0, 2}, g \in {0, 1}}

IdleJob == [running |-> FALSE, startTime |-> None, endTime |-> None, stats |-> NullStats]

\* getJobStatus() with the spread left out: the module's own object is returned.
getJobStatusSame(job) == [is |-> "currentJob", copy |-> job]

startJob(job, now) ==
    [job EXCEPT !.running = TRUE, !.startTime = now, !.endTime = None, !.stats = NullStats]

completeJob(job, stats, now) ==
    [job EXCEPT !.running = FALSE, !.endTime = now, !.stats = stats]

\* { ...currentJob }: a new object with the four properties of currentJob.
getJobStatus(job) == [is |-> "copy", copy |-> job]

\* tempOutputPath: a name no other call has.
TempOutputPath(x, idx) ==
    "/tmp/grab_" \o ToString(runs) \o "_" \o x \o "_" \o ToString(idx) \o ".xml"

\* source LIKE '%iptv-org%', on the sources of the model
LikeIptvOrg(source) == source \in {"https://iptv-org.github.io/epg/guides/a.xml"}

\* processEpg([tempOutputPath], {skipMatching}) returns: the channels of the
\* file are in epg_channels under a source of their own, and count is
\* counts[channel.xmltv_id] || 0.
IngestDone(x) ==
    /\ task[x].pc = "ingest"
    /\ QueueEmpty
    /\ \E count \in ProgramCounts :
          LET site == run.sites[x][task[x].idx]
              w == SetRes(World, x, IF count = 0 THEN "zero" ELSE "loaded")
              url == TempOutputPath(x, task[x].idx)
              purged == SelectSeq(epg_programs,
                                  LAMBDA p : ~(p.channel_id = x /\ LikeIptvOrg(p.source)))
          IN /\ Commit(IF count = 0 THEN ZeroPrograms(w, x, site)
                       ELSE Succeeded(w, x, site, count))
             /\ epg_channels' = IngestedChannels(epg_channels, url, GrabFile(x, site, count))
             /\ epg_programs' = IngestedPrograms(purged, url, GrabFile(x, site, count))
             /\ enrichLog' = [enrichLog EXCEPT !.ingested = TRUE]
    /\ currentJob' = startJob(currentJob, clock)
    /\ UNCHANGED <<clock, manual_overrides, iptv_org_map, env, runs, numbered, tvmaze_cache,
                   enrich, status, sync, grabs, flushVars>>

\* processEpg([tempOutputPath], {skipMatching}) returns after commitBatch of
\* the programmes threw: the rows of the source were deleted, the channel batch
\* was stored, onclosetag had counted every programme of the file, the catch
\* block logged the error, and programCounts is returned as it is.
IngestUnstored(x) ==
    /\ task[x].pc = "ingest"
    /\ QueueEmpty
    /\ \E count \in ProgramCounts \ {0} :
          LET site == run.sites[x][task[x].idx]
              w == SetRes(World, x, "loaded")
              url == TempOutputPath(x, task[x].idx)
              purged == SelectSeq(epg_programs,
                                  LAMBDA p : ~(p.channel_id = x /\ LikeIptvOrg(p.source)))
          IN /\ Commit(Succeeded(w, x, site, count))
             /\ epg_channels' = IngestedChannels(epg_channels, url, GrabFile(x, site, count))
             /\ epg_programs' = SelectSeq(purged, LAMBDA p : p.source # url)
             /\ enrichLog' = [enrichLog EXCEPT !.ingested = TRUE]
    /\ currentJob' = startJob(currentJob, clock)
    /\ UNCHANGED <<clock, manual_overrides, iptv_org_map, env, runs, numbered, tvmaze_cache,
                   enrich, status, sync, grabs, flushVars>>

\* ------------------------------------------------------------------ handlers

\* Time passes between two runs: one step of the clock is ten hours, and a run
\* is short against it.
Tick ==
    /\ ~run.active
    /\ clock < MaxTicks * TickMs
    /\ clock' = clock + TickMs
    /\ UNCHANGED <<lineupVars, corpusVars, healthVars, runVars, env, restVars>>

\* POST /api/channels/toggle {ids, enabled}
ToggleChannels ==
    /\ QueueEmpty
    /\ \E ids \in SUBSET (DOMAIN channels) \ {{}}, newStatus \in {0, 1} :
          /\ channels' = [c \in DOMAIN channels |->
                            IF c \in ids THEN [channels[c] EXCEPT !.enabled = newStatus]
                            ELSE channels[c]]
          /\ autoOff' = [c \in DOMAIN autoOff |->
                            IF c \in ids /\ newStatus = 1 THEN {} ELSE autoOff[c]]
    /\ UNCHANGED <<clock, manual_overrides, corpusVars, healthVars, runVars, env, restVars>>

\* POST /api/channels/re-enable {xmltv_ids}: reEnableChannels(xmltv_ids)
ReEnableChannels(xmltvIds) ==
    /\ QueueEmpty
    /\ channel_grab_status' = reEnableStatus(channel_grab_status, xmltvIds)
    /\ channels' = reEnableLineup(channels, xmltvIds)
    /\ autoOff' = [c \in DOMAIN autoOff |->
                      IF channels'[c].enabled = 1 THEN {} ELSE autoOff[c]]
    /\ UNCHANGED <<clock, manual_overrides, corpusVars, site_status, grab_logs, tripped,
                   lastDisableAt, runVars, env, restVars>>

\* ------------------------------------------------------------------ matching

STARTING_CHANNEL_NUMBER == 700

\* A name is the sequence of its words, each of letters and digits, and stands
\* for the words joined by single spaces.  An id is a string.  An empty name is
\* <<>>, an empty id is "".

\* String.prototype.toLowerCase on the words and ids of the model.
toLowerCase(w) ==
    CASE w = "Alpha" -> "alpha" [] w = "Beta" -> "beta" [] w = "Gamma" -> "gamma"
      [] w = "One" -> "one" [] w = "TV" -> "tv" [] w = "HD" -> "hd"
      [] w = "G1" -> "g1" [] w = "G2" -> "g2"
      [] w = "X1" -> "x1" [] w = "X2" -> "x2" [] w = "X3" -> "x3"
      [] w = "EN" -> "en" [] w = "ALPHA" -> "alpha"
      [] OTHER -> w

LowerName(name) == [i \in 1..Len(name) |-> toLowerCase(name[i])]

\* cleanName: on a name of plain words the replacement that removes a word is
\* the one of the quality tags; the last two join what is left.
cleanName(name) ==
    SelectSeq(name, LAMBDA w : toLowerCase(w) \notin {"hd", "fhd", "sd", "4k", "hevc", "uhd"})

\* String.prototype.includes on the lower-case ids of the model, none of which
\* is a proper part of another.
includes(a, b) == a = b

\* A match_type is [base, confirmed], for base followed by " (Confirmed)" when
\* confirmed; no base holds "(Confirmed)" itself.  NoType is the column at NULL.
MT(base) == [base |-> base, confirmed |-> FALSE]
NoType == MT(NULL)

\* What find, fuse.search(..)[0] and a lookup give when there is nothing.
Undefined == [absent |-> TRUE]

\* matchType = match_type ? String(match_type) : "Confirmed Match";
\* if (!matchType.includes("(Confirmed)")) matchType += " (Confirmed)"
Confirm(mt) ==
    IF mt = NoType THEN [base |-> "Confirmed Match", confirmed |-> TRUE]
    ELSE [mt EXCEPT !.confirmed = TRUE]

\* String(match_type).includes("IPTV-ORG Map")
IsMapType(mt) ==
    mt.base \in {"IPTV-ORG Map (Pre-match)", "IPTV-ORG Map (Verified)"}

\* The score Fuse gives text for a query, in hundredths: 0 for the same words in
\* any case, 20 for the pairs of Near, and above every threshold otherwise.
Near == {<< <<"Gamma">>, <<"Gamma", "TV">> >>}

FuseScore(query, text) ==
    IF LowerName(query) = LowerName(text) THEN 0
    ELSE IF <<query, text>> \in Near THEN 20
    ELSE 100

\* score.toFixed(2)
toFixed2(score) == CASE score = 0 -> "0.00" [] score = 20 -> "0.20" [] OTHER -> "1.00"

\* The first and the last row of a set of guide channels or of corpus rows in
\* table order, which is the order of the id.
FirstGuide(S) == CHOOSE r \in S : \A q \in S : Rank(r.id) <= Rank(q.id)
FirstMap(S) == CHOOSE r \in S : \A q \in S : Rank(r.xmltv_id) <= Rank(q.xmltv_id)
LastMap(S) == CHOOSE r \in S : \A q \in S : Rank(r.xmltv_id) >= Rank(q.xmltv_id)

\* allEpgChannels.find(pred), for the set of the channels that satisfy pred
GuideFind(hits) == IF hits = {} THEN Undefined ELSE FirstGuide(hits)

\* fuse.search(query)[0]: of the scored rows [item, score, rank] within the
\* threshold, the one of least score, the first in table order among equals.
FuseBest(scored, threshold) ==
    LET hits == {r \in scored : r.score <= threshold}
    IN IF hits = {} THEN Undefined
       ELSE CHOOSE r \in hits : \A q \in hits :
               r.score < q.score \/ (r.score = q.score /\ r.rank <= q.rank)

\* getSetting('preferred_lang'), "" when the row is missing or empty.
preferredLang == env.preferred_lang

\* A pre-match that takes the first corpus row of the name whatever its language.
PreMatchFirstRow(ch, c, mo, map) ==
    IF ch.matched_epg_id # NULL
    THEN [id |-> ch.matched_epg_id, type |-> Confirm(ch.match_type)]
    ELSE IF mo[c] # NULL
    THEN [id |-> mo[c], type |-> MT("Manual Override")]
    ELSE LET rows == {m \in map : LowerName(m.name) = LowerName(ch.name)}
         IN IF ch.name = <<>> \/ rows = {} THEN Undefined
            ELSE [id |-> FirstMap(rows).xmltv_id, type |-> MT("IPTV-ORG Map (Pre-match)")]

\* applyPreMatches, for one channel: the update it queues, if any.
PreMatch(ch, c, mo, map) ==
    IF ch.matched_epg_id # NULL
    THEN [id |-> ch.matched_epg_id, type |-> Confirm(ch.match_type)]
    ELSE IF mo[c] # NULL
    THEN [id |-> mo[c], type |-> MT("Manual Override")]
    ELSE LET rows == {m \in map : LowerName(m.name) = LowerName(ch.name)}
             targetLang == IF ch.lang # "" THEN ch.lang ELSE preferredLang
             exact == {m \in rows : m.lang # NULL /\ m.lang # ""
                                    /\ toLowerCase(m.lang) = toLowerCase(targetLang)}
             generic == {m \in rows : m.lang = NULL \/ m.lang = ""}
             bestMatch == IF targetLang = "" THEN FirstMap(rows)
                          ELSE IF exact # {} THEN FirstMap(exact)
                          ELSE IF generic # {} THEN FirstMap(generic)
                          ELSE Undefined
         IN IF ch.name = <<>> \/ rows = {} THEN Undefined
            ELSE IF bestMatch = Undefined THEN Undefined
            ELSE [id |-> bestMatch.xmltv_id, type |-> MT("IPTV-ORG Map (Pre-match)")]

\* A write of the id that leaves the type column as it was.
MatchedIdOnly(ch, m) ==
    IF m = Undefined THEN ch ELSE [ch EXCEPT !.matched_epg_id = m.id]

Matched(ch, m) ==
    IF m = Undefined THEN ch ELSE [ch EXCEPT !.matched_epg_id = m.id, !.match_type = m.type]

\* applyPreMatches()
ApplyPreMatches ==
    /\ channels' = [c \in DOMAIN channels |->
                      Matched(channels[c],
                              PreMatch(channels[c], c, manual_overrides, iptv_org_map))]
    /\ UNCHANGED <<clock, manual_overrides, autoOff, corpusVars, healthVars, runVars, env, restVars>>

\* matchChannelsToIptvOrg, for one channel: matched, matchedEpgId, matchReason.
IptvMatch(ch, rows) ==
    LET tvgId == toLowerCase(ch.tvg_id)
        byId == {m \in rows : toLowerCase(m.xmltv_id) = tvgId}
        cName == cleanName(ch.name)
        byName == {m \in rows : cleanName(m.name) # <<>> /\ cleanName(m.name) = cName}
        fuzzy == FuseBest({[item |-> m, score |-> FuseScore(cName, m.name),
                             rank |-> Rank(m.xmltv_id)] : m \in rows}, 30)
    IN IF tvgId # "" /\ byId # {}
       THEN [matched |-> TRUE, id |-> LastMap(byId).xmltv_id,
             reason |-> MT("Exact ID Match")]
       ELSE IF cName # <<>> /\ byName # {}
       THEN [matched |-> TRUE, id |-> LastMap(byName).xmltv_id,
             reason |-> MT("Exact Name Match")]
       ELSE IF cName # <<>> /\ fuzzy # Undefined
       THEN [matched |-> TRUE, id |-> fuzzy.item.xmltv_id,
             reason |-> MT("Fuzzy Name Match (" \o toFixed2(fuzzy.score) \o ")")]
       ELSE [matched |-> FALSE, id |-> "", reason |-> NoType]

\* Number(ch.channel_number) || 0
NumberOf(ch) == IF ch.channel_number = None THEN 0 ELSE ch.channel_number

Max(S) == CHOOSE n \in S : \A m \in S : m <= n

\* A numbering that gives every channel without a number the same next one.
ChannelNumberNoStep(chs, c) ==
    LET currentMax == Max({0} \cup {NumberOf(chs[d]) : d \in
                              {e \in DOMAIN chs : NumberOf(chs[e]) >= STARTING_CHANNEL_NUMBER}})
    IN IF NumberOf(chs[c]) # 0 THEN chs[c].channel_number
       ELSE IF currentMax > 0 THEN currentMax + 1 ELSE STARTING_CHANNEL_NUMBER

\* The number matchChannelsToIptvOrg gives channel c: its own, or the next free
\* one counted in table order from the highest number at or above 700.
ChannelNumber(chs, c) ==
    LET currentMax == Max({0} \cup {NumberOf(chs[d]) : d \in
                              {e \in DOMAIN chs : NumberOf(chs[e]) >= STARTING_CHANNEL_NUMBER}})
        nextNumber == IF currentMax > 0 THEN currentMax + 1 ELSE STARTING_CHANNEL_NUMBER
        earlier == {d \in DOMAIN chs : Rank(d) < Rank(c) /\ NumberOf(chs[d]) = 0}
    IN IF NumberOf(chs[c]) # 0 THEN chs[c].channel_number
       ELSE nextNumber + Cardinality(earlier)

\* matchChannelsToIptvOrg(): the rows are read once and the updates are made in
\* one transaction at the end.
MatchChannelsToIptvOrg ==
    LET rows == {m \in iptv_org_map : m.site # NULL /\ m.site_id # NULL}
    IN /\ channels' = [c \in DOMAIN channels |->
             LET ch == channels[c]
                 m == IptvMatch(ch, rows)
             IN IF m.matched \/ NumberOf(ch) = 0
                THEN [ch EXCEPT !.matched_epg_id = IF m.id # "" THEN m.id ELSE @,
                                !.match_type = IF m.matched THEN m.reason ELSE @,
                                !.channel_number = ChannelNumber(channels, c)]
                ELSE ch]
       /\ numbered' = numbered \cup {<<c, channels'[c].channel_number>> : c \in DOMAIN channels}
       /\ UNCHANGED <<clock, manual_overrides, autoOff, corpusVars, healthVars, runVars, env,
                      epg_programs, enrichVars, jobVars, flushVars>>

\* The matching stage of processEpg, for one channel: the id and type it
\* writes, both NULL for no match.  getText leaves the words of a name as they are.
EpgMatch(row, c, guide, mo) ==
    LET existing == IF row.matched_epg_id # NULL
                    THEN GuideFind({g \in guide : g.id = row.matched_epg_id})
                    ELSE Undefined
        override == IF mo[c] # NULL THEN GuideFind({g \in guide : g.id = mo[c]})
                    ELSE Undefined
        tid == toLowerCase(row.tvg_id)
        exactId == GuideFind({g \in guide : g.id = row.tvg_id})
        partialId == GuideFind({g \in guide : \/ includes(tid, toLowerCase(g.id))
                                              \/ includes(toLowerCase(g.id), tid)})
        cn == LowerName(cleanName(row.name))
        strict == GuideFind({g \in guide : LowerName(cleanName(g.display_name)) = cn})
        fuzzy == FuseBest({[item |-> g, score |-> FuseScore(cleanName(row.name), g.display_name),
                            rank |-> Rank(g.id)] : g \in guide}, 25)
    IN IF existing # Undefined THEN [id |-> existing.id, type |-> Confirm(row.match_type)]
       ELSE IF override # Undefined THEN [id |-> override.id, type |-> MT("Manual Override")]
       ELSE IF IsMapType(row.match_type)
       THEN [id |-> row.matched_epg_id, type |-> row.match_type]
       ELSE IF row.tvg_id # "" /\ exactId # Undefined
       THEN [id |-> exactId.id, type |-> MT("ID (Exact)")]
       ELSE IF row.tvg_id # "" /\ partialId # Undefined
       THEN [id |-> partialId.id, type |-> MT("ID (Partial)")]
       ELSE IF row.name # <<>> /\ strict # Undefined
       THEN [id |-> strict.id, type |-> MT("Strict Clean")]
       ELSE IF row.name # <<>> /\ fuzzy # Undefined
       THEN [id |-> fuzzy.item.id, type |-> MT("Fuzzy (" \o toFixed2(fuzzy.score) \o ")")]
       ELSE [id |-> NULL, type |-> NoType]

\* processEpg([url]) with matching: the rows of the source are replaced by the
\* ones parsed, and every lineup channel is matched anew against the guide
\* channels of all sources.
ProcessEpg(url, feed) ==
    /\ \E stored \in Stored(feed) :
          /\ epg_programs' = IngestedPrograms(epg_programs, url, stored)
          /\ epg_channels' = IngestedChannels(epg_channels, url, stored)
    /\ channels' = [c \in DOMAIN channels |->
                      Matched(channels[c],
                              EpgMatch(channels[c], c, epg_channels', manual_overrides))]
    /\ enrichLog' = [enrichLog EXCEPT !.ingested = TRUE]
    /\ currentJob' = startJob(currentJob, clock)
    /\ UNCHANGED <<clock, manual_overrides, autoOff, iptv_org_map, healthVars, runVars, env,
                   numbered, tvmaze_cache, enrich, status, sync, grabs, flushVars>>

\* processEpg([url]) when the download, or the read of the local file, throws
\* before an element is read: the rows of the source were deleted ahead of the
\* try block, the catch block logs the error, and the matching stage runs on
\* what is stored.
ProcessEpgFails(url) ==
    /\ epg_programs' = SelectSeq(epg_programs, LAMBDA p : p.source # url)
    /\ epg_channels' = {g \in epg_channels : g.source # url}
    /\ channels' = [c \in DOMAIN channels |->
                      Matched(channels[c],
                              EpgMatch(channels[c], c, epg_channels', manual_overrides))]
    /\ enrichLog' = [enrichLog EXCEPT !.ingested = TRUE]
    /\ currentJob' = startJob(currentJob, clock)
    /\ UNCHANGED <<clock, manual_overrides, autoOff, iptv_org_map, healthVars, runVars, env,
                   numbered, tvmaze_cache, enrich, status, sync, grabs, flushVars>>

RECURSIVE InsertOrReplace(_, _)
\* INSERT OR REPLACE INTO iptv_org_map, under PRIMARY KEY (name, xmltv_id), of
\* the entries in the order of the batches.
InsertOrReplace(table, entries) ==
    IF entries = <<>> THEN table
    ELSE LET e == Head(entries)
         IN InsertOrReplace({r \in table : ~(r.name = e.name /\ r.xmltv_id = e.xmltv_id)}
                                \cup {e},
                            Tail(entries))

\* updateIptvOrgData() over site files whose channel elements are entries, in
\* the order they are read: the table is emptied, and the elements that have
\* a name and an xmltv_id are inserted.
UpdateIptvOrgData(entries) ==
    /\ iptv_org_map' =
          InsertOrReplace({}, SelectSeq(entries, LAMBDA e : e.name # <<>> /\ e.xmltv_id # NULL))
    /\ UNCHANGED <<clock, lineupVars, epg_channels, healthVars, runVars, env, restVars>>

\* POST /api/override {channel_id, epg_id}: an empty epg_id deletes the row.
SaveOverride(channel_id, epg_id) ==
    /\ manual_overrides' = [manual_overrides EXCEPT ![channel_id] = epg_id]
    /\ UNCHANGED <<clock, channels, autoOff, corpusVars, healthVars, runVars, env, restVars>>

\* POST /api/config {preferred_lang}: the setting is stored, nothing is matched again.
SaveConfig(preferred_lang) ==
    /\ env' = [env EXCEPT !.preferred_lang = preferred_lang]
    /\ UNCHANGED <<clock, lineupVars, corpusVars, healthVars, runVars, restVars>>

\* ------------------------------------------------------------------ metadata enrichment

CACHE_TTL_DAYS == 7
REQUEST_DELAY_MS == 100
DayMs == 1000 * 60 * 60 * 24

\* A title is the sequence of its characters, each a string of length one.
Digits == {"0", "1", "2", "3", "4", "5", "6", "7", "8", "9"}
Lower == {"a", "b", "c", "d", "e", "f", "g", "h", "i", "j", "k", "l", "m",
          "n", "o", "p", "q", "r", "s", "t", "u", "v", "w", "x", "y", "z"}
Upper == {"E", "H", "D", "N", "S"}

\* String.prototype.toLowerCase, on a character
LowerChar(c) ==
    CASE c = "E" -> "e" [] c = "H" -> "h" [] c = "D" -> "d" [] c = "N" -> "n"
      [] c = "S" -> "s" [] OTHER -> c

\* \w of a regular expression; \p{L}, \p{N} and \s on the characters of the model
IsWord(c) == c \in Digits \cup Lower \cup Upper \cup {"_"}
IsLetterOrNumber(c) == c \in Digits \cup Lower \cup Upper
IsSpace(c) == c = " "

\* \b before position i of s
Boundary(s, i) ==
    (i > 1 /\ i - 1 <= Len(s) /\ IsWord(s[i - 1])) # (i <= Len(s) /\ IsWord(s[i]))

\* s has the characters of lit from position i on
HasAt(s, i, lit) ==
    /\ i + Len(lit) - 1 <= Len(s)
    /\ \A k \in 1..Len(lit) : s[i + k - 1] = lit[k]

\* The number of characters from position i on that are digits, or spaces
DigitRun(s, i) ==
    IF i > Len(s) \/ s[i] \notin Digits THEN 0
    ELSE (CHOOSE j \in i..Len(s) :
              /\ \A k \in i..j : s[k] \in Digits
              /\ (j = Len(s) \/ s[j + 1] \notin Digits)) - i + 1

SpaceRun(s, i) ==
    IF i > Len(s) \/ ~IsSpace(s[i]) THEN 0
    ELSE (CHOOSE j \in i..Len(s) :
              /\ \A k \in i..j : IsSpace(s[k])
              /\ (j = Len(s) \/ ~IsSpace(s[j + 1]))) - i + 1

Quality ==
    {<<"h", "d">>, <<"s", "d">>, <<"f", "h", "d">>, <<"u", "h", "d">>, <<"4", "k">>,
     <<"1", "0", "8", "0", "p">>, <<"7", "2", "0", "p">>, <<"4", "8", "0", "p">>,
     <<"h", "e", "v", "c">>, <<"h", "2", "6", "4">>, <<"h", ".", "2", "6", "4">>,
     <<"x", "2", "6", "4">>, <<"x", "2", "6", "5">>}

\* The length of the match of a pattern at position i of s, 0 for none.
\* "quality": \b(hd|sd|fhd|uhd|4k|1080p|720p|480p|hevc|h\.?264|x264|x265)\b
\* "marker":  \bs?\d{1,2}[ex]\d{1,2}\b
\* "season":  \bseason\s*\d+\b      "episode": \bepisode\s*\d+\b
\* "year":    \(\d{4}\)
MarkerLen(s, i) ==
    LET tries == {t \in [s : {0, 1}, a : {1, 2}, b : {1, 2}] :
                    LET j == i + t.s
                    IN /\ t.s = 1 => (i <= Len(s) /\ s[i] = "s")
                       /\ j + t.a + t.b <= Len(s)
                       /\ \A k \in j..(j + t.a - 1) : s[k] \in Digits
                       /\ s[j + t.a] \in {"e", "x"}
                       /\ \A k \in (j + t.a + 1)..(j + t.a + t.b) : s[k] \in Digits
                       /\ Boundary(s, j + t.a + t.b + 1)}
        \* the order of backtracking: s? and the counts are greedy
        first == CHOOSE t \in tries : \A u \in tries :
                    \/ t.s > u.s
                    \/ t.s = u.s /\ t.a > u.a
                    \/ t.s = u.s /\ t.a = u.a /\ t.b >= u.b
    IN IF ~Boundary(s, i) \/ tries = {} THEN 0 ELSE first.s + first.a + 1 + first.b

WordNumberLen(s, i, word) ==
    LET j == i + Len(word) + SpaceRun(s, i + Len(word))
        n == DigitRun(s, j)
    IN IF Boundary(s, i) /\ HasAt(s, i, word) /\ n > 0 /\ Boundary(s, j + n)
       THEN j + n - i ELSE 0

MatchLen(s, i, pattern) ==
    CASE pattern = "quality" ->
           IF Boundary(s, i) /\ \E q \in Quality : HasAt(s, i, q) /\ Boundary(s, i + Len(q))
           THEN Len(CHOOSE q \in Quality : HasAt(s, i, q) /\ Boundary(s, i + Len(q)))
           ELSE 0
      [] pattern = "marker" -> MarkerLen(s, i)
      [] pattern = "season" -> WordNumberLen(s, i, <<"s", "e", "a", "s", "o", "n">>)
      [] pattern = "episode" -> WordNumberLen(s, i, <<"e", "p", "i", "s", "o", "d", "e">>)
      [] pattern = "year" ->
           IF /\ i + 5 <= Len(s) /\ s[i] = "(" /\ s[i + 5] = ")"
              /\ \A k \in (i + 1)..(i + 4) : s[k] \in Digits
           THEN 6 ELSE 0
      [] pattern = "other" -> IF ~IsLetterOrNumber(s[i]) /\ ~IsSpace(s[i]) THEN 1 ELSE 0
      [] pattern = "spaces" -> SpaceRun(s, i)

RECURSIVE ReplaceFrom(_, _, _, _)
\* s.replace(/pattern/g, by), from position i on
ReplaceFrom(s, i, pattern, by) ==
    IF i > Len(s) THEN <<>>
    ELSE CHOOSE r \in {IF n > 0 THEN by \o ReplaceFrom(s, j, pattern, by)
                                 ELSE <<s[i]>> \o ReplaceFrom(s, j, pattern, by) :
                           <<n, j>> \in {<<MatchLen(s, i, pattern),
                                           i + IF MatchLen(s, i, pattern) > 0
                                               THEN MatchLen(s, i, pattern) ELSE 1>>}} : TRUE

Replace(s, pattern, by) == ReplaceFrom(s, 1, pattern, by)

\* String.prototype.trim
Trim(s) ==
    IF \A k \in 1..Len(s) : IsSpace(s[k]) THEN <<>>
    ELSE SubSeq(s, CHOOSE a \in 1..Len(s) : ~IsSpace(s[a]) /\ \A k \in 1..(a - 1) : IsSpace(s[k]),
                   CHOOSE b \in 1..Len(s) : ~IsSpace(s[b]) /\ \A k \in (b + 1)..Len(s) : IsSpace(s[k]))

\* title.split(':')[0]
FirstPart(title) ==
    SubSeq(title, 1, (CHOOSE k \in 1..Len(title) :
                         title[k] = ":" /\ \A j \in 1..(k - 1) : title[j] # ":") - 1)

\* The name of the show in the title: the part before the first colon if
\* more than two characters of it are left after trim().
ShowName(title) ==
    IF (\E k \in 1..Len(title) : title[k] = ":") /\ Len(Trim(FirstPart(title))) > 2
    THEN Trim(FirstPart(title)) ELSE title

\* The chain of calls on showName, each applied to the value of the one before.
normalizeTitle(title) ==
    CHOOSE out \in
        {Trim(r7) :
         r7 \in {Replace(r6, "spaces", <<" ">>) :
         r6 \in {Replace(r5, "other", <<" ">>) :
         r5 \in {Replace(r4, "year", <<>>) :
         r4 \in {Replace(r3, "episode", <<>>) :
         r3 \in {Replace(r2, "season", <<>>) :
         r2 \in {Replace(r1, "marker", <<>>) :
         r1 \in {Replace(lower, "quality", <<>>) :
         lower \in {[k \in 1..Len(showName) |-> LowerChar(showName[k])] :
         showName \in {ShowName(t) : t \in {title}}}}}}}}}}} : TRUE

\* A lookup of the cache that returns the row whatever its age.
getCachedMetadataAnyAge(cache, normalizedTitle, now) ==
    LET rows == {r \in cache : r.title_normalized = normalizedTitle}
    IN IF rows = {} THEN Undefined ELSE CHOOSE r \in rows : TRUE

\* getCachedMetadata(normalizedTitle) at time now: the row, or Undefined when
\* there is none or the one there is is older than CACHE_TTL_DAYS
getCachedMetadata(cache, normalizedTitle, now) ==
    LET rows == {r \in cache : r.title_normalized = normalizedTitle}
        row == CHOOSE r \in rows : TRUE
    IN IF rows = {} THEN Undefined
       ELSE IF now - row.cached_at > CACHE_TTL_DAYS * DayMs THEN Undefined
       ELSE row

\* What TVMaze has for the one show it knows: show.genres.join(', ') and
\* String(show.rating.average), and '' and null when there is no show.
ShowId == 41
genresOf(id) == IF id = None THEN "" ELSE "Drama, Crime"
ratingOf(id) == IF id = None THEN NULL ELSE "8.1"

\* COALESCE(NULLIF(column, ''), value)
Coalesce(column, value) == IF column # "" /\ column # NULL THEN column ELSE value

\* cacheMetadata that stores the shows found and nothing for a title not found.
cacheMetadataOfShows(cache, normalizedTitle, id, now) ==
    IF id = None THEN cache
    ELSE {r \in cache : r.title_normalized # normalizedTitle}
            \cup {[title_normalized |-> normalizedTitle, tvmaze_id |-> id,
                genres |-> genresOf(id), rating |-> ratingOf(id), cached_at |-> now]}

\* cacheMetadata(normalizedTitle, show) at time now; id is None for no show
cacheMetadata(cache, normalizedTitle, id, now) ==
    {r \in cache : r.title_normalized # normalizedTitle}
        \cup {[title_normalized |-> normalizedTitle, tvmaze_id |-> id,
                genres |-> genresOf(id), rating |-> ratingOf(id), cached_at |-> now]}

\* An update that puts the genres and the rating of the show over what the
\* guide had.
MarkTitleOverwrite(programs, title, id, genres, rating) ==
    [k \in DOMAIN programs |->
        IF programs[k].title # title THEN programs[k]
        ELSE IF id = None THEN [programs[k] EXCEPT !.enriched = 1]
        ELSE [programs[k] EXCEPT !.tmdb_id = id, !.category = genres,
                                 !.rating = rating, !.enriched = 1]]

\* UPDATE epg_programs SET enriched = 1 WHERE title = ? for no show, and for a
\* show UPDATE epg_programs SET tmdb_id = ?, category = COALESCE(NULLIF(category,
\* ''), ?), rating = COALESCE(NULLIF(rating, ''), ?), enriched = 1 WHERE title = ?
MarkTitle(programs, title, id, genres, rating) ==
    [k \in DOMAIN programs |->
        IF programs[k].title # title THEN programs[k]
        ELSE IF id = None THEN [programs[k] EXCEPT !.enriched = 1]
        ELSE [programs[k] EXCEPT !.tmdb_id = id,
                                 !.category = Coalesce(@, genres),
                                 !.rating = Coalesce(@, rating),
                                 !.enriched = 1]]

\* SELECT DISTINCT title FROM epg_programs
\* WHERE title IS NOT NULL AND title != '' AND enriched = 0
PendingTitles(programs) ==
    LET rows == SelectSeq(programs, LAMBDA r : r.title # <<>> /\ r.enriched = 0)
    IN Dedup([k \in DOMAIN rows |-> rows[k].title])

\* The stats object of a pass, with the locals apiCalls and apiFailed and the
\* time spent in delay(REQUEST_DELAY_MS); when no pass is in progress, the
\* ones of the latest pass.
NoStats == [totalPrograms |-> 0, enriched |-> 0, notFound |-> 0, skipped |-> 0,
            fromCache |-> 0, apiFailed |-> 0, apiCalls |-> 0, delayMs |-> 0]

IdleEnrich == [pc |-> "idle", titles |-> <<>>, i |-> 0, stats |-> NoStats]

RECURSIVE EnrichLoop(_, _, _, _, _, _)
\* The loop of enrichProgramsWithMetadata from title i on, up to the title that
\* needs a lookup or to the end: the programs as they are then, and where it stands.
EnrichLoop(programs, cache, titles, i, now, stats) ==
    IF i > Len(titles) THEN [programs |-> programs, enrich |-> [IdleEnrich EXCEPT !.stats = stats]]
    ELSE LET title == titles[i]
             normalized == normalizeTitle(title)
             cached == getCachedMetadata(cache, normalized, now)
         IN IF Len(normalized) < 2
            THEN EnrichLoop(MarkTitle(programs, title, None, "", NULL), cache, titles, i + 1, now,
                            [stats EXCEPT !.skipped = @ + 1])
            ELSE IF cached # Undefined
            THEN EnrichLoop(MarkTitle(programs, title, cached.tvmaze_id,
                                      cached.genres, cached.rating),
                            cache, titles, i + 1, now,
                            IF cached.tvmaze_id # None
                            THEN [stats EXCEPT !.enriched = @ + 1, !.fromCache = @ + 1]
                            ELSE [stats EXCEPT !.notFound = @ + 1, !.fromCache = @ + 1])
            ELSE [programs |-> programs,
                  enrich |-> [pc |-> "lookup", titles |-> titles, i |-> i,
                              stats |-> [stats EXCEPT !.delayMs = @ + REQUEST_DELAY_MS,
                                                      !.apiCalls = @ + 1]]]

\* enrichProgramsWithMetadata() is called, with metadata_enrichment_enabled
\* 'true' and no other call in progress, and runs up to its first lookup.
EnrichStart ==
    /\ enrich.pc = "idle"
    /\ LET titles == PendingTitles(epg_programs)
           r == EnrichLoop(epg_programs, tvmaze_cache, titles, 1, clock,
                           [NoStats EXCEPT !.totalPrograms = Len(titles)])
       IN /\ epg_programs' = r.programs
          /\ enrich' = r.enrich
          /\ enrichLog' = [start |-> epg_programs, at |-> clock, ingested |-> FALSE]
    /\ UNCHANGED <<clock, lineupVars, corpusVars, healthVars, runVars, env, numbered,
                   tvmaze_cache, jobVars, flushVars>>

\* What searchTVMaze gives: a show, null for a 404, or an error.
SearchOutcomes == {"show", "404", "error"}

\* What the lookup of one title adds to the stats.
Counted(stats, outcome) ==
    IF outcome = "show" THEN [stats EXCEPT !.enriched = @ + 1]
    ELSE IF outcome = "404" THEN [stats EXCEPT !.notFound = @ + 1]
    ELSE [stats EXCEPT !.notFound = @ + 1, !.apiFailed = @ + 1]

\* SearchDone without the inner try: an error of the lookup reaches the outer
\* catch, and the call returns its stats.
SearchDoneOuterCatch(outcome) ==
    /\ enrich.pc = "lookup"
    /\ LET title == enrich.titles[enrich.i]
           id == IF outcome = "show" THEN ShowId ELSE None
           cache == IF outcome = "error" THEN tvmaze_cache
                    ELSE cacheMetadata(tvmaze_cache, normalizeTitle(title), id, clock)
           r == IF outcome = "error"
                THEN [programs |-> epg_programs,
                      enrich |-> [IdleEnrich EXCEPT !.stats = enrich.stats]]
                ELSE EnrichLoop(MarkTitle(epg_programs, title, id, genresOf(id), ratingOf(id)), cache, enrich.titles,
                                enrich.i + 1, clock, Counted(enrich.stats, outcome))
       IN /\ tvmaze_cache' = cache
          /\ epg_programs' = r.programs
          /\ enrich' = r.enrich
    /\ UNCHANGED <<clock, lineupVars, corpusVars, healthVars, runVars, env, numbered,
                   enrichLog, jobVars, flushVars>>

\* The delay is over and searchTVMaze(normalized) returns or throws: the result
\* is cached and applied, and the loop goes on up to the next lookup.
SearchDone(outcome) ==
    /\ enrich.pc = "lookup"
    /\ LET title == enrich.titles[enrich.i]
           id == IF outcome = "show" THEN ShowId ELSE None
           cache == IF outcome = "error" THEN tvmaze_cache
                    ELSE cacheMetadata(tvmaze_cache, normalizeTitle(title), id, clock)
           r == EnrichLoop(MarkTitle(epg_programs, title, id, genresOf(id), ratingOf(id)), cache, enrich.titles,
                           enrich.i + 1, clock, Counted(enrich.stats, outcome))
       IN /\ tvmaze_cache' = cache
          /\ epg_programs' = r.programs
          /\ enrich' = r.enrich
    /\ UNCHANGED <<clock, lineupVars, corpusVars, healthVars, runVars, env, numbered,
                   enrichLog, jobVars, flushVars>>

\* Half the life of a cache entry passes while no lookup is awaited.
HalfTtlMs == (CACHE_TTL_DAYS * DayMs) \div 2

Later ==
    /\ enrich.pc = "idle"
    /\ clock < MaxHalfTtls * HalfTtlMs
    /\ clock' = clock + HalfTtlMs
    /\ UNCHANGED <<lineupVars, corpusVars, healthVars, runVars, env, restVars>>

\* ------------------------------------------------------------------ playlist import

\* fetchAndSavePlaylist(url), for the items parsed from the playlist: a sequence
\* of [id, name, tvg_id, lang] with distinct ids, id being generateId(url, name).
\* A known id has its descriptive columns updated, a new one is inserted with
\* the next number, the rows that the playlist no longer has are deleted, and
\* applyPreMatches runs over the result.
FetchAndSavePlaylist(items) ==
    LET existingMap == DOMAIN channels
        nums == {n \in {NumberOf(channels[c]) : c \in existingMap} :
                    n >= STARTING_CHANNEL_NUMBER}
        nextChannelNumber == IF nums # {} THEN Max(nums) + 1 ELSE STARTING_CHANNEL_NUMBER
        seenIds == {items[i].id : i \in DOMAIN items}
        inserted == {i \in DOMAIN items : items[i].id \notin existingMap}
        saved == [c \in seenIds |->
                    LET i == CHOOSE j \in DOMAIN items : items[j].id = c
                    IN IF c \in existingMap
                       THEN [channels[c] EXCEPT !.name = items[i].name,
                                                !.tvg_id = items[i].tvg_id,
                                                !.lang = items[i].lang]
                       ELSE [name |-> items[i].name, tvg_id |-> items[i].tvg_id,
                             lang |-> items[i].lang, matched_epg_id |-> NULL,
                             match_type |-> NoType, enabled |-> 1,
                             channel_number |->
                                 nextChannelNumber
                                 + Cardinality({j \in inserted : j < i})]]
    IN /\ nextChannelNumber + Cardinality(inserted) <= STARTING_CHANNEL_NUMBER + MaxNumbers
       /\ channels' = [c \in seenIds |->
                          Matched(saved[c], PreMatch(saved[c], c, manual_overrides, iptv_org_map))]
       /\ numbered' = numbered \cup {<<items[i].id, saved[items[i].id].channel_number>> :
                                        i \in inserted}
       /\ autoOff' = [c \in seenIds |-> IF c \in existingMap THEN autoOff[c] ELSE {}]
       /\ UNCHANGED <<clock, manual_overrides, corpusVars, healthVars, runVars, env,
                      epg_programs, enrichVars, jobVars, flushVars>>

RECURSIVE Text(_)
\* The name of a channel as the playlist has it: its words with spaces between.
Text(name) ==
    IF name = <<>> THEN ""
    ELSE IF Len(name) = 1 THEN name[1]
    ELSE name[1] \o " " \o Text(Tail(name))

\* createHash('md5').update(url + name).digest('hex'): the digest is taken to
\* differ whenever the text digested does.
generateId(url, name) == url \o Text(name)

RECURSIVE SaveItems(_, _, _, _, _)
\* The loop of fetchAndSavePlaylist over the items from item i on: an id of
\* existingMap, which is read once before the loop, is updated, any other is
\* inserted with the next number, and an INSERT of an id the table has by then
\* fails on PRIMARY KEY (id).
SaveItems(table, existingMap, items, i, nextChannelNumber) ==
    IF i > Len(items)
    THEN [table |-> table, thrown |-> FALSE, nextChannelNumber |-> nextChannelNumber]
    ELSE LET ch == items[i]
             id == generateId(ch.url, ch.name)
         IN IF id \in existingMap
            THEN SaveItems([table EXCEPT ![id] = [@ EXCEPT !.name = ch.name,
                                                          !.tvg_id = ch.tvg_id,
                                                          !.lang = ch.lang]],
                           existingMap, items, i + 1, nextChannelNumber)
            ELSE IF id \in DOMAIN table
            THEN [table |-> table, thrown |-> TRUE, nextChannelNumber |-> nextChannelNumber]
            ELSE SaveItems([c \in DOMAIN table \cup {id} |->
                               IF c # id THEN table[c]
                               ELSE [name |-> ch.name, tvg_id |-> ch.tvg_id, lang |-> ch.lang,
                                     matched_epg_id |-> NULL, match_type |-> NoType,
                                     enabled |-> 1, channel_number |-> nextChannelNumber]],
                           existingMap, items, i + 1, nextChannelNumber + 1)

\* The call for these items on this table rejects.
Rejects(table, items) ==
    SaveItems(table, DOMAIN table, items, 1, STARTING_CHANNEL_NUMBER).thrown

\* fetchAndSavePlaylist(url) for a playlist given by the url and the name of
\* its items, which may list an item twice.  When an INSERT fails the call
\* rejects inside its transaction, which it neither commits nor rolls back:
\* the rows the playlist no longer has are not deleted and applyPreMatches
\* does not run; the connection reads the rows saved up to there, or, once the
\* open transaction is lost, the table as it was.
FetchAndSaveEntries(items) ==
    LET existingMap == DOMAIN channels
        nums == {n \in {NumberOf(channels[c]) : c \in existingMap} :
                    n >= STARTING_CHANNEL_NUMBER}
        first == IF nums # {} THEN Max(nums) + 1 ELSE STARTING_CHANNEL_NUMBER
        r == SaveItems(channels, existingMap, items, 1, first)
        seenIds == {generateId(items[i].url, items[i].name) : i \in DOMAIN items}
    IN /\ first + Len(items) <= STARTING_CHANNEL_NUMBER + MaxNumbers
       /\ \E kept \in BOOLEAN :
             channels' = IF r.thrown THEN (IF kept THEN r.table ELSE channels)
                         ELSE [c \in seenIds |->
                                  Matched(r.table[c],
                                          PreMatch(r.table[c], c, manual_overrides,
                                                   iptv_org_map))]
       /\ numbered' = numbered \cup {<<c, r.table[c].channel_number>> :
                                        c \in DOMAIN r.table \ existingMap}
       /\ autoOff' = [c \in DOMAIN channels' |-> IF c \in existingMap THEN autoOff[c] ELSE {}]
       /\ UNCHANGED <<clock, manual_overrides, corpusVars, healthVars, runVars, env,
                      epg_programs, enrichVars, jobVars, flushVars>>

\* ------------------------------------------------------------------ configurations

Row(name, tvgId, matched, matchType) ==
    [name |-> name, tvg_id |-> tvgId, lang |-> "", matched_epg_id |-> matched,
     match_type |-> matchType, enabled |-> 1, channel_number |-> None]

MapRow(name, xmltvId, site) ==
    [name |-> name, xmltv_id |-> xmltvId, lang |-> NULL, site |-> site,
     site_id |-> IF site = NULL THEN NULL ELSE xmltvId]

IdleRun ==
    [active |-> FALSE, channels |-> <<>>, sites |-> <<>>, channelIndex |-> 0,
     activePromises |-> {}, completed |-> 0, successful |-> 0, failed |-> 0,
     logBase |-> <<>>, siteBase |-> <<>>, raised |-> FALSE, ids |-> {}]

\* ------------------------------------------------------------------ batch flush

MaxFlushes == 2     \* commitBatch calls of one channel task
BatchRows == 2      \* rows of one batch

IdleFlush == [pc |-> "idle", n |-> 0, failed |-> 0]

\* The rows of the n-th batch of the task of x.
Batch(x, n) == {<<x, n, k>> : k \in 1..BatchRows}

\* commitBatch of the task of x is called with a batch that is not empty, and
\* db.execute("BEGIN TRANSACTION") runs on the connection all tasks share.
\* SQLite refuses a BEGIN within an open transaction: the call rejects and the
\* batch is dropped.
FlushBegin(x) ==
    /\ flush[x].pc = "idle"
    /\ flush[x].n < MaxFlushes
    /\ IF conn.txn
       THEN /\ flush' = [flush EXCEPT ![x].n = @ + 1, ![x].failed = @ + 1]
            /\ UNCHANGED conn
       ELSE /\ flush' = [flush EXCEPT ![x].n = @ + 1, ![x].pc = "insert"]
            /\ conn' = [conn EXCEPT !.txn = TRUE]
    /\ UNCHANGED <<clock, lineupVars, corpusVars, healthVars, runVars, env,
                   epg_programs, numbered, enrichVars, jobVars, persisted>>

\* The INSERT of the batch, one statement for all of its rows.
FlushInsert(x) ==
    /\ flush[x].pc = "insert"
    /\ flush' = [flush EXCEPT ![x].pc = "commit"]
    /\ IF conn.txn
       THEN /\ conn' = [conn EXCEPT !.uncommitted = @ \cup Batch(x, flush[x].n)]
            /\ UNCHANGED persisted
       ELSE /\ persisted' = persisted \cup Batch(x, flush[x].n)
            /\ UNCHANGED conn
    /\ UNCHANGED <<clock, lineupVars, corpusVars, healthVars, runVars, env,
                   epg_programs, numbered, enrichVars, jobVars>>

\* COMMIT: what the open transaction holds becomes durable.
FlushCommit(x) ==
    /\ flush[x].pc = "commit"
    /\ flush' = [flush EXCEPT ![x].pc = "idle",
                              ![x].failed = IF conn.txn THEN @ ELSE @ + 1]
    /\ persisted' = persisted \cup conn.uncommitted
    /\ conn' = [txn |-> FALSE, uncommitted |-> {}]
    /\ UNCHANGED <<clock, lineupVars, corpusVars, healthVars, runVars, env,
                   epg_programs, numbered, enrichVars, jobVars>>

\* ------------------------------------------------------------------ job callers

NoStatus == [is |-> "none", copy |-> IdleJob]

\* What a caller reads through the object it holds.
Held == IF status.is = "currentJob" THEN currentJob ELSE status.copy

\* GET /api/job-status, or any caller that keeps the object.
GetJobStatus ==
    /\ status' = getJobStatus(currentJob)
    /\ UNCHANGED <<clock, lineupVars, corpusVars, healthVars, runVars, env,
                   epg_programs, numbered, enrichVars, currentJob, sync, grabs, flushVars>>

JobFields == {"running", "startTime", "endTime", "stats"}
FieldValues(f) ==
    IF f = "running" THEN BOOLEAN
    ELSE IF f = "stats" THEN JobStats \cup {NullStats}
    ELSE {None, 0}

\* status.<f> = v by the caller that holds the object.
ModifyStatus(f, v) ==
    /\ status.is # "none"
    /\ IF status.is = "currentJob"
       THEN currentJob' = [currentJob EXCEPT ![f] = v] /\ UNCHANGED status
       ELSE status' = [status EXCEPT !.copy[f] = v] /\ UNCHANGED currentJob
    /\ UNCHANGED <<clock, lineupVars, corpusVars, healthVars, runVars, env,
                   epg_programs, numbered, enrichVars, sync, grabs, flushVars>>

MaxApiGrabs == 2

\* runFullSync up to its first await: the guard and startJob.
RunFullSync ==
    /\ IF getJobStatus(currentJob).copy.running
       THEN /\ sync' = [sync EXCEPT !.skipped = TRUE]
            /\ UNCHANGED currentJob
       ELSE /\ sync.pc = "idle"
            /\ currentJob' = startJob(currentJob, clock)
            /\ sync' = [pc |-> "run", skipped |-> FALSE]
    /\ UNCHANGED <<clock, lineupVars, corpusVars, healthVars, runVars, env,
                   epg_programs, numbered, enrichVars, status, grabs, flushVars>>

\* runFullSync, steps 1 to 3: ids.length > 0 and grabMissingChannels is awaited,
\* or there is nothing to grab.
SyncGrab ==
    /\ sync.pc = "run"
    /\ \/ sync' = [sync EXCEPT !.pc = "grab"] /\ grabs' = [grabs EXCEPT !.sync = @ + 1]
       \/ sync' = [sync EXCEPT !.pc = "finish"] /\ UNCHANGED grabs
    /\ UNCHANGED <<clock, lineupVars, corpusVars, healthVars, runVars, env,
                   epg_programs, numbered, enrichVars, currentJob, status, flushVars>>

\* An await of runFullSync rejects: the catch block logs, and returns.
SyncFail ==
    /\ sync.pc \in {"run", "finish"}
    /\ sync' = [sync EXCEPT !.pc = "idle"]
    /\ UNCHANGED <<clock, lineupVars, corpusVars, healthVars, runVars, env,
                   epg_programs, numbered, enrichVars, currentJob, status, grabs, flushVars>>

\* runFullSync, steps 4 to 6.
SyncComplete(stats) ==
    /\ sync.pc = "finish"
    /\ currentJob' = completeJob(currentJob, stats, clock)
    /\ sync' = [sync EXCEPT !.pc = "idle"]
    /\ UNCHANGED <<clock, lineupVars, corpusVars, healthVars, runVars, env,
                   epg_programs, numbered, enrichVars, status, grabs, flushVars>>

\* POST /api/grab with ids.length > 0: grabMissingChannels is started and not awaited.
PostGrab ==
    /\ grabs.api < MaxApiGrabs
    /\ grabs' = [grabs EXCEPT !.api = @ + 1]
    /\ UNCHANGED <<clock, lineupVars, corpusVars, healthVars, runVars, env,
                   epg_programs, numbered, enrichVars, currentJob, status, sync, flushVars>>

\* processEpg([tempOutputPath]) within a grabMissingChannels call begins with startJob().
GrabProcessEpg ==
    /\ grabs.sync + grabs.api > 0
    /\ currentJob' = startJob(currentJob, clock)
    /\ UNCHANGED <<clock, lineupVars, corpusVars, healthVars, runVars, env,
                   epg_programs, numbered, enrichVars, status, sync, grabs, flushVars>>

\* A grabMissingChannels call returns to its caller.
GrabReturn(caller) ==
    /\ grabs[caller] > 0
    /\ grabs' = [grabs EXCEPT ![caller] = @ - 1]
    /\ sync' = IF caller = "sync" THEN [sync EXCEPT !.pc = "finish"] ELSE sync
    /\ UNCHANGED <<clock, lineupVars, corpusVars, healthVars, runVars, env,
                   epg_programs, numbered, enrichVars, currentJob, status, flushVars>>

\* What every configuration starts from, given its lineup, overrides, corpus,
\* guide channels and health rows.
Start(chs, mo, map, guide, ss, cgs, modes, maxRuns) ==
    /\ clock = 0
    /\ channels = chs
    /\ manual_overrides = mo
    /\ iptv_org_map = map
    /\ epg_channels = guide
    /\ site_status = ss
    /\ channel_grab_status = cgs
    /\ grab_logs = [x \in DOMAIN cgs |-> <<>>]
    /\ run = IdleRun
    /\ task = [x \in DOMAIN cgs |-> IdleTask]
    /\ env = [grabberModes |-> modes, maxRuns |-> maxRuns, preferred_lang |-> ""]
    /\ runs = 0
    /\ calls = [x \in DOMAIN cgs |-> <<>>]
    /\ tripped = [s \in DOMAIN ss |->
                    IF ss[s] # NoRow /\ ss[s].failure_count >= MAX_FAILURES_BEFORE_SKIP
                    THEN ss[s].last_attempt ELSE None]
    /\ lastDisableAt = [x \in DOMAIN cgs |-> 0]
    /\ autoOff = [c \in DOMAIN chs |-> {}]
    /\ epg_programs = <<>>
    /\ tvmaze_cache = {}
    /\ enrich = IdleEnrich
    /\ enrichLog = [start |-> <<>>, at |-> 0, ingested |-> FALSE]
    /\ numbered = {<<c, chs[c].channel_number>> :
                      c \in {d \in DOMAIN chs : chs[d].channel_number # None}}
    /\ currentJob = IdleJob
    /\ status = NoStatus
    /\ sync = [pc |-> "idle", skipped |-> FALSE]
    /\ grabs = [sync |-> 0, api |-> 0]
    /\ flush = [x \in DOMAIN cgs |-> IdleFlush]
    /\ conn = [txn |-> FALSE, uncommitted |-> {}]
    /\ persisted = {}

GrabberModes == {"reject", "nofile", "file"}

Lineup ==
    [c \in {"c1", "c2", "c3"} |->
        IF c = "c3" THEN Row(<<"Beta">>, "", "X2", MT("Exact Name Match"))
        ELSE Row(<<"Alpha">>, "", "X1", MT("Exact Name Match"))]

Overrides == [c \in {"c1", "c2", "c3"} |-> IF c = "c2" THEN "X2" ELSE NULL]

\* A lineup of three channels on two guide ids.  c2 was matched to X1 and then
\* pinned to X2 by POST /api/override.  X1 has two candidate sites, X2 one.
\* a.com was never tried, or has failed twice or three times in earlier runs.
Corpus ==
    {MapRow(<<"Alpha">>, "X1", "a.com"), MapRow(<<"Alpha", "One">>, "X1", "b.com"),
     MapRow(<<"Beta">>, "X2", "a.com")}

EarlierFailures == {2, MAX_FAILURES_BEFORE_SKIP}

InitRuns(maxRuns) ==
    \E ssA \in {NoRow} \cup {[last_attempt |-> 0, failure_count |-> n] : n \in EarlierFailures} :
        Start(Lineup, Overrides, Corpus, {},
              [s \in {"a.com", "b.com"} |-> IF s = "a.com" THEN ssA ELSE NoRow],
              [x \in {"X1", "X2"} |-> NoRow],
              GrabberModes, maxRuns)

Init == InitRuns(MaxRuns)

InitBreaker == InitRuns(RetryRuns)

\* The same lineup with a corpus that knows X2 only.  X2 was never grabbed, or
\* has failed four times in a row in earlier runs.
InitHealth ==
    \E cgsX2 \in {NoRow, [consecutive_failures |-> 4, auto_disabled |-> 0]} :
        Start(Lineup, Overrides,
              {MapRow(<<"Beta">>, "X2", "a.com")},
              {},
              [s \in {"a.com"} |-> NoRow],
              [x \in {"X1", "X2"} |-> IF x = "X2" THEN cgsX2 ELSE NoRow],
              {"reject", "file"}, RetryRuns)

PoolNames ==
    <<"p01", "p02", "p03", "p04", "p05", "p06", "p07", "p08", "p09", "p10", "p11",
      "p12", "p13">>

PoolIds == {PoolNames[i] : i \in 1..(CONCURRENCY_LIMIT + PoolExtra)}

\* More channels than the pool admits, each matched to a guide id of its own
\* whose one candidate site is a.com, and a grabber that fails.
InitPool ==
    Start([c \in PoolIds |-> Row(<<c>>, c, c, MT("Exact ID Match"))],
          [c \in PoolIds |-> NULL],
          {MapRow(<<c>>, c, "a.com") : c \in PoolIds},
          {},
          [s \in {"a.com"} |-> NoRow],
          [x \in PoolIds |-> NoRow],
          {"reject"}, MaxRuns)

RunStep ==
    \/ GrabMissingChannels
    \/ StartChannel
    \/ \E x \in DOMAIN task : GrabExit(x)
    \/ \E x \in DOMAIN task : IngestDone(x)

Next ==
    \/ RunStep
    \/ Tick

Spec == Init /\ [][Next]_vars

SpecBreaker == InitBreaker /\ [][Next]_vars

\* The runs in which a statement on the storage may fail.
NextStorage ==
    \/ Next
    \/ \E x \in DOMAIN task : StorageError(x)
    \/ \E x \in DOMAIN task : IngestUnstored(x)

SpecStorage == Init /\ [][NextStorage]_vars

\* The runs in which every grabber process closes and every ingest of an
\* output file returns, so that the awaits of processChannel resume, and in
\* which the pool loop runs whenever it can start a channel.
GrabbersReturn ==
    /\ WF_vars(StartChannel)
    /\ \A x \in {"X1", "X2"} : WF_vars(GrabExit(x)) /\ WF_vars(IngestDone(x))

SpecReturn == Init /\ [][Next]_vars /\ GrabbersReturn

NextHealth ==
    \/ RunStep
    \/ ToggleChannels
    \/ \E xmltvIds \in SUBSET (DOMAIN channel_grab_status) \ {{}} : ReEnableChannels(xmltvIds)

SpecHealth == InitHealth /\ [][NextHealth]_vars

\* The runs that POST /api/grab starts, on the lineup whose corpus knows X2
\* only, between the runs of the full sync.
NextApi ==
    \/ NextHealth
    \/ ApiGrab

SpecApi == InitHealth /\ [][NextApi]_vars

NextPool ==
    \/ GrabMissingChannels
    \/ StartChannel
    \/ \E x \in DOMAIN task : GrabExit(x)

SpecPool == InitPool /\ [][NextPool]_vars

Guide(id, name) == [id |-> id, display_name |-> name]

\* What a guide source can hold when it is processed.
GuideFeeds ==
    {[channels |-> <<Guide("G1", <<"Alpha">>)>>, programs |-> <<>>],
     [channels |-> <<Guide("G1", <<"Alpha">>), Guide("G2", <<"Gamma", "TV">>),
                     Guide("X2", <<"Beta">>)>>,
      programs |-> <<>>]}

EpgUrl == "http://guide.example/all.xml"

OverrideIds == {NULL, "G1"}

\* A lineup fresh from the playlist, nothing matched: c1 and c2 numbered at
\* insertion, c3 from before the lineup had numbers.  The corpus has a site for
\* Alpha and Beta and none for Gamma; the guide is empty.
InitMatch ==
    Start([c \in {"c1", "c2", "c3"} |->
              [Row(IF c = "c1" THEN <<"Alpha", "HD">>
                   ELSE IF c = "c2" THEN <<"Beta">> ELSE <<"Gamma">>,
                   IF c = "c2" THEN "x2" ELSE "", NULL, NoType)
               EXCEPT !.channel_number =
                   IF c = "c1" THEN STARTING_CHANNEL_NUMBER
                   ELSE IF c = "c2" THEN STARTING_CHANNEL_NUMBER + 1 ELSE None]],
          [c \in {"c1", "c2", "c3"} |-> NULL],
          {MapRow(<<"Alpha">>, "X1", "a.com"), MapRow(<<"Beta">>, "X2", "a.com"),
           MapRow(<<"Gamma">>, "X3", NULL)},
          {},
          [s \in {"a.com"} |-> NoRow],
          [x \in {"X1", "X2", "X3"} |-> NoRow],
          {"reject"}, MaxRuns)

NextMatch ==
    \/ ApplyPreMatches
    \/ MatchChannelsToIptvOrg
    \/ \E feed \in GuideFeeds : ProcessEpg(EpgUrl, feed)
    \/ \E c \in DOMAIN channels, e \in OverrideIds : SaveOverride(c, e)

SpecMatch == InitMatch /\ [][NextMatch]_vars

\* The lineup under playlist imports.  It starts empty, or with two channels
\* saved before channels had a channel_number column.
Item(id, name, tvgId) == [id |-> id, name |-> name, tvg_id |-> tvgId, lang |-> ""]

Playlists ==
    LET c1 == Item("c1", <<"Alpha", "HD">>, "")
        c2 == Item("c2", <<"Beta">>, "x2")
        c3 == Item("c3", <<"Gamma">>, "")
    IN {<<c1, c2>>, <<c1>>, <<c1, c3>>, <<c2, c3, c1>>}

InitLineup ==
    \E ids \in {{}, {"c2", "c3"}} :
        Start([c \in ids |-> IF c = "c2" THEN Row(<<"Beta">>, "x2", NULL, NoType)
                             ELSE Row(<<"Gamma">>, "", NULL, NoType)],
              [c \in {"c1", "c2", "c3"} |-> NULL],
              {MapRow(<<"Alpha">>, "X1", "a.com"), MapRow(<<"Beta">>, "X2", "a.com"),
               MapRow(<<"Gamma">>, "X3", NULL)},
              {},
              [s \in {"a.com"} |-> NoRow],
              [x \in {"X1", "X2", "X3"} |-> NoRow],
              {"reject"}, MaxRuns)

NextLineup ==
    \/ \E items \in Playlists : FetchAndSavePlaylist(items)
    \/ MatchChannelsToIptvOrg

SpecLineup == InitLineup /\ [][NextLineup]_vars

\* Playlists given by the url and the name of their items: an item listed
\* twice, next to itself and after another, and an item without a name whose
\* url ends with the name of another item.
Entry(url, name, tvgId) == [url |-> url, name |-> name, tvg_id |-> tvgId, lang |-> ""]

EntryLists ==
    LET a == Entry("http://x/", <<"Alpha">>, "")
        b == Entry("http://x/b", <<"Beta">>, "x2")
        g == Entry("http://x/g", <<"Gamma">>, "")
        n == Entry("http://x/Alpha", <<>>, "")
    IN {<<a, b>>, <<b, g>>, <<g>>, <<a, a>>, <<b, a, b>>, <<a, n>>}

EntryIds ==
    UNION {{generateId(items[i].url, items[i].name) : i \in DOMAIN items} :
              items \in EntryLists}

InitEntries ==
    Start(<<>>, [c \in EntryIds |-> NULL],
          {MapRow(<<"Alpha">>, "X1", "a.com"), MapRow(<<"Beta">>, "X2", "a.com"),
           MapRow(<<"Gamma">>, "X3", NULL)},
          {},
          [s \in {"a.com"} |-> NoRow],
          [x \in {"X1", "X2", "X3"} |-> NoRow],
          {"reject"}, MaxRuns)

NextEntries ==
    \/ \E items \in EntryLists : FetchAndSaveEntries(items)
    \/ MatchChannelsToIptvOrg

SpecEntries == InitEntries /\ [][NextEntries]_vars

\* Guide sources that carry the same channel id, ingested in any order and any
\* number of times.
\* A programme element with its attributes channel, start and stop and its
\* title, category and rating children; the parser starts the last two at ''.
Broadcast(channel, start, stop, title, category, rating) ==
    [channel |-> channel, start |-> start, stop |-> stop, title |-> title,
     category |-> category, rating |-> rating]

\* A programme of one unit of time, without category and rating.
Programme(channel, start, title) == Broadcast(channel, start, start + 1, title, "", "")

Urls == {EpgUrl, "https://iptv-org.github.io/epg/guides/a.xml", "/data/epg/local.xml"}

\* "News HD" and "news" have one normalized title, "HD" has an empty one, and
\* a programme without a title element has the title ''.
Feeds ==
    {[channels |-> <<>>, programs |-> <<>>],
     [channels |-> <<Guide("G1", <<"Alpha">>)>>,
      programs |-> <<Programme("G1", 1, <<"N", "e", "w", "s", " ", "H", "D">>),
                     Programme("G1", 2, GrabTitle),
                     Programme("G1", 3, <<>>)>>],
     [channels |-> <<Guide("G1", <<"Alpha">>), Guide("G1", <<"Alpha", "TV">>),
                     Guide("X2", <<"Beta">>)>>,
      programs |-> <<Programme("X2", 1, <<"H", "D">>)>>],
     [channels |-> <<Guide("X2", <<"Beta">>)>>,
      programs |-> <<Programme("X2", 1, GrabTitle), Programme("G1", 1, GrabTitle)>>]}

NextIngest ==
    \E url \in Urls, feed \in Feeds : ProcessEpg(url, feed)

SpecIngest == InitMatch /\ [][NextIngest]_vars

\* The same sources, each of which may fail to download or to open.
NextOutage ==
    \/ NextIngest
    \/ \E url \in Urls : ProcessEpgFails(url)

SpecOutage == InitMatch /\ [][NextOutage]_vars

\* Documents with elements that lack a required attribute: a channel without
\* id between two channels, and programmes without channel and without start
\* among programmes that have both.  They are ingested before a playlist is,
\* so the matching stage has no lineup channel to match.
ParsedFeeds ==
    {[channels |-> <<Guide("G1", <<"Alpha">>), Guide(NULL, <<"Beta">>),
                     Guide("X2", <<"Beta">>)>>,
      programs |-> <<Programme("G1", 1, GrabTitle), Programme("X2", 2, GrabTitle)>>],
     [channels |-> <<Guide("G1", <<"Alpha">>)>>,
      programs |-> <<Programme("G1", 1, GrabTitle), Programme(NULL, 2, GrabTitle),
                     Programme("G1", None, GrabTitle), Programme("G1", 3, GrabTitle)>>],
     [channels |-> <<Guide("G1", <<"Alpha">>), Guide("X2", <<"Beta">>)>>,
      programs |-> <<Programme("X2", 1, GrabTitle)>>]}

InitParse ==
    Start(<<>>, [c \in {"c1", "c2", "c3"} |-> NULL], {}, {},
          [s \in {"a.com"} |-> NoRow], [x \in {"X1", "X2", "X3"} |-> NoRow],
          {"reject"}, MaxRuns)

NextParse ==
    \E url \in Urls, feed \in ParsedFeeds : ProcessEpg(url, feed)

SpecParse == InitParse /\ [][NextParse]_vars

\* Documents whose programme elements carry the times of their broadcast: a
\* programme that ends after it starts, one that ends when it starts, and one
\* that ends before it starts.
TimedFeeds ==
    {[channels |-> <<Guide("G1", <<"Alpha">>)>>,
      programs |-> <<Broadcast("G1", 1, 3, GrabTitle, "", ""),
                     Broadcast("G1", 3, 3, GrabTitle, "", ""),
                     Broadcast("G1", 5, 4, GrabTitle, "", "")>>],
     [channels |-> <<Guide("G1", <<"Alpha">>), Guide("X2", <<"Beta">>)>>,
      programs |-> <<Broadcast("G1", 1, 2, GrabTitle, "", ""),
                     Broadcast("X2", 2, 4, GrabTitle, "", "")>>],
     [channels |-> <<Guide("X2", <<"Beta">>)>>,
      programs |-> <<Broadcast("X2", 4, 2, GrabTitle, "", "")>>]}

NextTimes ==
    \E url \in Urls, feed \in TimedFeeds : ProcessEpg(url, feed)

SpecTimes == InitParse /\ [][NextTimes]_vars

\* The channel elements of the site files of a refresh: a guide id under two
\* sites by one name and by two names, an element without xmltv_id, and the
\* same element twice.
SiteFiles ==
    {<<MapRow(<<"Alpha">>, "X1", "a.com"), MapRow(<<"Beta">>, "X2", "a.com"),
       MapRow(<<"Alpha">>, "X1", "b.com")>>,
     <<MapRow(<<"Alpha">>, "X1", "a.com"), MapRow(<<"Alpha", "One">>, "X1", "b.com")>>,
     <<MapRow(<<"Gamma">>, NULL, "a.com"), MapRow(<<"Gamma">>, "X3", "b.com")>>,
     <<MapRow(<<"Beta">>, "X2", "b.com"), MapRow(<<"Beta">>, "X2", "b.com")>>,
     <<>>}

\* Refreshes of the corpus between the other matching operations.
NextCorpus ==
    \/ NextMatch
    \/ \E entries \in SiteFiles : UpdateIptvOrgData(entries)

SpecCorpus == InitMatch /\ [][NextCorpus]_vars

\* The job module with its callers: runFullSync (the scheduler and POST
\* /api/select-epg), POST /api/grab, processEpg within a grab, and a caller
\* that keeps and changes the object getJobStatus gave it.
NextJob ==
    \/ Tick
    \/ GetJobStatus
    \/ \E f \in JobFields : \E v \in FieldValues(f) : ModifyStatus(f, v)
    \/ RunFullSync
    \/ SyncGrab
    \/ SyncFail
    \/ \E stats \in JobStats : SyncComplete(stats)
    \/ PostGrab
    \/ GrabProcessEpg
    \/ \E caller \in {"sync", "api"} : GrabReturn(caller)

SpecJob == InitParse /\ [][NextJob]_vars

\* The channel tasks of a run ingesting their files at the same time, one
\* statement of one task at a time on the shared connection.
NextFlush ==
    \E x \in {"X1", "X2", "X3"} : FlushBegin(x) \/ FlushInsert(x) \/ FlushCommit(x)

SpecFlush == InitParse /\ [][NextFlush]_vars

\* The enrichment passes over the programs of one source, which is ingested
\* before, between or during them, while the cache entries age.
NextEnrich ==
    \/ \E feed \in Feeds : ProcessEpg(EpgUrl, feed)
    \/ EnrichStart
    \/ \E outcome \in SearchOutcomes : SearchDone(outcome)
    \/ Later

SpecEnrich == InitMatch /\ [][NextEnrich]_vars

\* Guides whose programmes come with and without a category and a rating of
\* their own: two programmes of one title, of which one has both; a programme
\* whose title normalizes to nothing; and programmes that have the one or the
\* other.
MetaFeeds ==
    {[channels |-> <<Guide("G1", <<"Alpha">>)>>,
      programs |-> <<Broadcast("G1", 1, 2, GrabTitle, "News", "TV-14"),
                     Broadcast("G1", 2, 3, GrabTitle, "", ""),
                     Broadcast("G1", 3, 4, <<"H", "D">>, "Film", ""),
                     Broadcast("G1", 4, 5, <<"a", "b">>, "", "TV-G")>>],
     [channels |-> <<Guide("X2", <<"Beta">>)>>,
      programs |-> <<Broadcast("X2", 1, 2, <<"a", "b">>, "Sports", ""),
                     Broadcast("X2", 2, 3, GrabTitle, "", "")>>]}

\* The enrichment passes over programmes that have metadata of their own,
\* within the life of the cache entries they make.
NextMeta ==
    \/ \E feed \in MetaFeeds : ProcessEpg(EpgUrl, feed)
    \/ EnrichStart
    \/ \E outcome \in SearchOutcomes : SearchDone(outcome)

SpecMeta == InitMatch /\ [][NextMeta]_vars

\* Titles put together from pieces normalizeTitle looks for: the word
\* "season", a number, a quality tag, a year in parentheses, a colon,
\* punctuation, a space and a plain word.
MaxTokens == 3

Tokens ==
    {<<"s", "e", "a", "s", "o", "n">>, <<"5">>, <<"H", "D">>,
     <<"(", "2", "0", "2", "0", ")">>, <<":">>, <<"#">>, <<" ">>, <<"a", "b">>}

RECURSIVE TitlesOf(_)
TitlesOf(n) ==
    IF n = 0 THEN {<<>>}
    ELSE {t \o token : t \in TitlesOf(n - 1), token \in Tokens}

Titles == UNION {TitlesOf(n) : n \in 1..MaxTokens}

TitleFeed(title) ==
    [channels |-> <<Guide("G1", <<"Alpha">>)>>,
     programs |-> <<Programme("G1", 1, title)>>]

\* One guide with one programme of any of the titles is ingested, and the
\* enrichment passes normalize its title.
NextTitles ==
    \/ \E title \in Titles : epg_programs = <<>> /\ ProcessEpg(EpgUrl, TitleFeed(title))
    \/ EnrichStart
    \/ \E outcome \in SearchOutcomes : SearchDone(outcome)

SpecTitles == InitMatch /\ [][NextTitles]_vars

\* Three streams of one channel name, declared without a language, as French
\* and as "EN", imported while the preferred language is changed.  The corpus
\* lists the name under two or three guide ids, each with any language or none.
Languages == {"en", "fr"}

LangPlaylists ==
    LET c1 == Item("c1", <<"Alpha">>, "")
        c2 == [Item("c2", <<"Alpha">>, "") EXCEPT !.lang = "fr"]
        c3 == [Item("c3", <<"ALPHA">>, "") EXCEPT !.lang = "EN"]
    IN {<<c1>>, <<c2, c3>>, <<c1, c2, c3>>}

InitLang ==
    \E lang \in [{"X1", "X2", "X3"} -> Languages \cup {NULL}] :
    \E ids \in {{"X1", "X2"}, {"X1", "X2", "X3"}} :
        Start(<<>>,
              [c \in {"c1", "c2", "c3"} |-> NULL],
              {[MapRow(<<"Alpha">>, x, NULL) EXCEPT !.lang = lang[x]] : x \in ids},
              {},
              [s \in {"a.com"} |-> NoRow],
              [x \in {"X1", "X2", "X3"} |-> NoRow],
              {"reject"}, MaxRuns)

NextLang ==
    \/ \E items \in LangPlaylists : FetchAndSavePlaylist(items)
    \/ \E lang \in Languages \cup {"", "de"} : SaveConfig(lang)

SpecLang == InitLang /\ [][NextLang]_vars

\* ------------------------------------------------------------------ properties

Last(s) == s[Len(s)]

Started == {x \in DOMAIN task : task[x].pc # "idle"}
InFlight == {x \in DOMAIN task : task[x].pc \in {"grab", "ingest"}}
Grabbing == {x \in DOMAIN task : task[x].pc = "grab"}

FailureCount(ss, s) == IF ss[s] = NoRow THEN 0 ELSE ss[s].failure_count
ConsecutiveFailures(cgs, x) == IF cgs[x] = NoRow THEN 0 ELSE cgs[x].consecutive_failures

\* The entries grab_logs holds for x from the run in progress.
RunLog(x) ==
    IF x \in DOMAIN run.logBase
    THEN SubSeq(grab_logs[x], run.logBase[x] + 1, Len(grab_logs[x]))
    ELSE <<>>

\* A step in which the grabber is started for x.
Spawns(x) == runs' = runs /\ Len(calls'[x]) = Len(calls[x]) + 1

\* A step in which the invocation in flight for x ends with res.
Ends(x, res) ==
    /\ runs' = runs
    /\ calls[x] # <<>>
    /\ Last(calls[x]).res # res
    /\ calls'[x][Len(calls[x])].res = res

\* C1: during a run at most CONCURRENCY_LIMIT (10) channel tasks are in flight,
\* hence at most 10 grabber invocations; the channels started exceed the
\* channels finished by at most 10, so with 10 active the next one starts only
\* after one has finished.
C1_PoolBound ==
    /\ Cardinality(InFlight) <= 10
    /\ Cardinality(Grabbing) <= 10
    /\ InFlight \subseteq run.activePromises
    /\ run.channelIndex - run.completed <= 10
    /\ Cardinality(Started) = run.channelIndex

\* C1 witness: ten grabber invocations in flight and a channel waiting for a slot.
C1_Witness ==
    /\ Cardinality(Grabbing) = 10
    /\ run.channelIndex < Len(run.channels)

\* C2: the candidates of a channel are tried one at a time in list order, and
\* the first one with a count above zero ends the channel: a success entry for
\* that site is logged, the site and the channel are marked successful, and no
\* further candidate is invoked.
C2_Order ==
    \A x \in DOMAIN calls :
        /\ \A i \in 1..Len(calls[x]) :
              /\ i < Len(calls[x]) => calls[x][i].idx < calls[x][i + 1].idx
              /\ i < Len(calls[x]) => calls[x][i].res \in {"reject", "nofile", "zero"}
        /\ task[x].result = "success" =>
              /\ task[x].pc = "done"
              /\ calls[x] # <<>>
              /\ Last(calls[x]).res = "loaded"
              /\ Last(RunLog(x)).success
              /\ Last(RunLog(x)).site = run.sites[x][Last(calls[x]).idx]
              /\ Last(RunLog(x)).program_count > 0
              /\ \A i \in 1..Len(RunLog(x)) : RunLog(x)[i].success => i = Len(RunLog(x))

C2_Marks ==
    \A x \in DOMAIN calls :
        Ends(x, "loaded") =>
            /\ task'[x].result = "success"
            /\ FailureCount(site_status', run.sites[x][Last(calls[x]).idx]) = 0
            /\ site_status'[run.sites[x][Last(calls[x]).idx]].last_attempt = clock
            /\ channel_grab_status'[x] # NoRow
            /\ channel_grab_status'[x].consecutive_failures = 0
            /\ Len(calls'[x]) = Len(calls[x])

C2_InOrderUntilSuccess == []C2_Order /\ [][C2_Marks]_vars

\* C2 witness: a channel with two candidates that succeeded on the first.
C2_Witness ==
    \E x \in DOMAIN calls :
        /\ task[x].result = "success"
        /\ Len(calls[x]) = 1
        /\ calls[x][1].idx = 1
        /\ Len(run.sites[x]) = 2

\* C3: a channel whose first candidate returns zero programs and whose second
\* returns 12 ends with a failure entry for the first site, a success entry of
\* 12 programs for the second and none for the first, is counted as succeeded,
\* and the step that records the zero count raises the first site's
\* failure_count by exactly one.
C3_Scenario ==
    \A x \in DOMAIN calls :
        (task[x].pc = "done" /\ calls[x] = <<[idx |-> 1, res |-> "zero"],
                                             [idx |-> 2, res |-> "loaded"]>>) =>
            /\ RunLog(x) =
                 <<[site |-> run.sites[x][1], success |-> FALSE,
                    message |-> "Site returned 0 programs, trying next", program_count |-> 0],
                   [site |-> run.sites[x][2], success |-> TRUE,
                    message |-> "Loaded 12 programs", program_count |-> 12]>>
            /\ task[x].result = "success"
            /\ run.successful = Cardinality({y \in DOMAIN task : task[y].result = "success"})

C3_ZeroCounts ==
    \A x \in DOMAIN calls :
        Ends(x, "zero") =>
            LET site == run.sites[x][Last(calls[x]).idx]
            IN /\ FailureCount(site_status', site) = FailureCount(site_status, site) + 1
               /\ task'[x].result # "success"
               /\ Len(calls[x]) < Len(run.sites[x]) =>
                     (Spawns(x) \/ task'[x].result = "failed")

C3_ZeroThenTwelve == []C3_Scenario /\ [][C3_ZeroCounts]_vars

\* C3 witness: the scenario has happened.
C3_Witness ==
    \E x \in DOMAIN calls :
        /\ task[x].pc = "done"
        /\ calls[x] = <<[idx |-> 1, res |-> "zero"], [idx |-> 2, res |-> "loaded"]>>
        /\ run.sites[x][1] # run.sites[x][2]

\* The error the invocation call of x left in lastError, or "" for none.
ErrorOf(x, call) ==
    IF call.res = "reject" THEN "Exit 1: Unknown error"
    ELSE IF call.res = "zero" THEN run.sites[x][call.idx] \o " returned 0 programs"
    ELSE ""

RECURSIVE LastErrorOf(_, _)
LastErrorOf(x, cs) ==
    IF cs = <<>> THEN ""
    ELSE IF ErrorOf(x, Last(cs)) # "" THEN ErrorOf(x, Last(cs))
    ELSE LastErrorOf(x, SubSeq(cs, 1, Len(cs) - 1))

ChannelEntries(log) == {i \in 1..Len(log) : log[i].site = "all"}

\* C4: the step in which a channel runs out of candidates without a success
\* appends exactly one channel-level failure entry (site 'all', no programs),
\* whose message is the last error of the candidates tried or, with none, the
\* no-data reason, and raises the channel's consecutive_failures by exactly one.
C4_Step ==
    \A x \in DOMAIN task :
        (runs' = runs /\ task[x].result = "none" /\ task'[x].result = "failed") =>
            /\ \A i \in 1..Len(calls'[x]) : calls'[x][i].res \in {"reject", "nofile", "zero"}
            /\ \A j \in 1..Len(run.sites[x]) :
                  \/ \E i \in 1..Len(calls'[x]) : calls'[x][i].idx = j
                  \/ site_status'[run.sites[x][j]] # NoRow
            /\ Cardinality(ChannelEntries(grab_logs'[x])) =
                  Cardinality(ChannelEntries(grab_logs[x])) + 1
            /\ Last(grab_logs'[x]) =
                  [site |-> "all", success |-> FALSE, program_count |-> 0,
                   message |-> IF LastErrorOf(x, calls'[x]) # ""
                               THEN LastErrorOf(x, calls'[x])
                               ELSE "All sites failed or returned 0 programs"]
            /\ channel_grab_status'[x] # NoRow
            /\ channel_grab_status'[x].consecutive_failures =
                  ConsecutiveFailures(channel_grab_status, x) + 1

C4_Once ==
    \A x \in DOMAIN task :
        /\ task[x].result = "failed" =>
              Cardinality(ChannelEntries(RunLog(x))) = 1 /\ task[x].pc = "done"
        /\ task[x].result # "failed" => ChannelEntries(RunLog(x)) = {}

C4_Exhausted == []C4_Once /\ [][C4_Step]_vars

\* C4 witness: a channel failed after both of its candidates were tried.
C4_Witness ==
    \E x \in DOMAIN task :
        /\ task[x].result = "failed"
        /\ Len(calls[x]) = 2
        /\ Last(grab_logs[x]).site = "all"

\* The sites shouldSkipSite makes a channel pass over.
Breaker(ss, site, now) ==
    /\ ss[site] # NoRow
    /\ ss[site].failure_count >= 3
    /\ now - ss[site].last_attempt < 20 * 60 * 60 * 1000

\* C5: shouldSkipSite is true exactly for a site with a row whose failure_count
\* is at least 3 and whose last_attempt is less than 20 hours ago; a site
\* without a row, or whose last attempt is 20 hours old, is not skipped.  In a
\* run the grabber is started for a site only when this is false, and a
\* candidate is passed over only when it is true.
C5_Function ==
    \A s \in DOMAIN site_status :
        /\ shouldSkipSite(site_status, s, clock) <=> Breaker(site_status, s, clock)
        /\ site_status[s] = NoRow => ~shouldSkipSite(site_status, s, clock)
        /\ (site_status[s] # NoRow /\ clock - site_status[s].last_attempt >= 20 * 60 * 60 * 1000)
              => ~shouldSkipSite(site_status, s, clock)

\* The site_status a step of channel x consults: the table after the step's own
\* record of the invocation that ended in it.
Consulted(x) ==
    IF Ends(x, "reject") \/ Ends(x, "zero")
    THEN recordSiteAttempt(site_status, run.sites[x][Last(calls[x]).idx], FALSE, clock)
    ELSE site_status

C5_Use ==
    \A x \in DOMAIN calls :
        Spawns(x) =>
            LET sites == run'.sites[x]
                from == IF calls[x] = <<>> THEN 1 ELSE Last(calls[x]).idx + 1
                to == Last(calls'[x]).idx
            IN /\ ~Breaker(Consulted(x), sites[to], clock)
               /\ \A k \in from..(to - 1) : Breaker(Consulted(x), sites[k], clock)

C5_SkipRule == []C5_Function /\ [][C5_Use]_vars

\* C5 witness: the grabber runs for a site that has failed three times, twenty
\* hours after its last attempt.
C5_Witness ==
    \E x \in DOMAIN task :
        /\ task[x].pc = "grab"
        /\ LET s == run.sites[x][task[x].idx]
           IN /\ site_status[s] # NoRow
              /\ site_status[s].failure_count >= 3
              /\ clock - site_status[s].last_attempt >= 20 * 60 * 60 * 1000

\* C6: once the failure count of a site has reached 3, the grabber is started
\* for it for no channel until 20 hours after that attempt.  tripped[s] is the
\* time of the last failed attempt that left the count of s at 3 or more, with
\* no invocation started for s since.
C6_Step ==
    \A x \in DOMAIN calls :
        Spawns(x) =>
            LET s == run'.sites[x][Last(calls'[x]).idx]
            IN tripped[s] = None \/ clock - tripped[s] >= 20 * 60 * 60 * 1000

C6_NoGrabWhileTripped == [][C6_Step]_vars

\* C7: the lineup is disabled for a guide id only in the step that takes its
\* consecutive_failures to 5: not below, and not again above.
C7_Step ==
    \A c \in DOMAIN channels : \A x \in DOMAIN channel_grab_status :
        (x \in autoOff'[c] /\ x \notin autoOff[c]) =>
            /\ channel_grab_status'[x] # NoRow
            /\ channel_grab_status'[x].consecutive_failures = 5

C7_DisabledOnce == [][C7_Step]_vars

\* C8: the step that records a successful grab for a channel leaves its
\* consecutive_failures at 0 and its auto_disabled at 0, whatever they were.
C8_Step ==
    \A x \in DOMAIN task :
        (runs' = runs /\ task[x].result = "none" /\ task'[x].result = "success") =>
            /\ channel_grab_status'[x] # NoRow
            /\ channel_grab_status'[x].consecutive_failures = 0
            /\ channel_grab_status'[x].auto_disabled = 0

C9_Step ==
    \A xmltvIds \in SUBSET (DOMAIN channel_grab_status) :
        ReEnableChannels(xmltvIds) =>
            /\ \A x \in xmltvIds :
                  channel_grab_status[x] # NoRow =>
                      /\ channel_grab_status'[x].consecutive_failures = 0
                      /\ channel_grab_status'[x].auto_disabled = 0
            /\ \A c \in DOMAIN channels :
                  autoOff[c] \cap xmltvIds # {} => channels'[c].enabled = 1

C9_ReEnableRestores == [][C9_Step]_vars

\* C10: no matching pass changes the matched guide id of a channel whose match
\* is confirmed, when the pass changes no override, the channel has no override
\* that names another id, and the pass leaves the guide as it is or with the
\* matched id in it.
C10_Step ==
    \A c \in DOMAIN channels :
        (/\ channels[c].matched_epg_id # NULL
         /\ channels[c].match_type.confirmed
         /\ manual_overrides[c] \in {NULL, channels[c].matched_epg_id}
         /\ manual_overrides' = manual_overrides
         /\ \/ epg_channels' = epg_channels
            \/ \E g \in epg_channels' : g.id = channels[c].matched_epg_id) =>
            channels'[c].matched_epg_id = channels[c].matched_epg_id

C10_ConfirmedKept == [][C10_Step]_vars

\* C11: after any matching pass every channel is in one of two states: no match,
\* with matched_epg_id and match_type both NULL, or matched, with both set and
\* one method recorded.
C11_OneState ==
    \A c \in DOMAIN channels :
        \/ channels[c].matched_epg_id = NULL /\ channels[c].match_type = NoType
        \/ /\ channels[c].matched_epg_id \notin {NULL, ""}
           /\ channels[c].match_type # NoType
           /\ channels[c].match_type.base # NULL

\* A pass over the guide has matched one channel by name and left another
\* without a match.
C11_Witness ==
    /\ epg_channels # {}
    /\ \E c \in DOMAIN channels : channels[c].match_type = MT("Strict Clean")
    /\ \E c \in DOMAIN channels : channels[c].matched_epg_id = NULL

\* The six tiers of the matching stage, each as what it finds for a channel in
\* the guide: Undefined, or the guide channel and the method.
C12_Tiers(row, c, guide, mo) ==
    LET hit(g, type) == IF g = Undefined THEN Undefined ELSE [id |-> g.id, type |-> type]
        tid == toLowerCase(row.tvg_id)
        cn == LowerName(cleanName(row.name))
        fuzzy == FuseBest({[item |-> g, score |-> FuseScore(cleanName(row.name), g.display_name),
                            rank |-> Rank(g.id)] : g \in guide}, 25)
    IN << IF row.matched_epg_id = NULL THEN Undefined
          ELSE hit(GuideFind({g \in guide : g.id = row.matched_epg_id}), Confirm(row.match_type)),
          IF mo[c] = NULL THEN Undefined
          ELSE hit(GuideFind({g \in guide : g.id = mo[c]}), MT("Manual Override")),
          IF row.tvg_id = "" THEN Undefined
          ELSE hit(GuideFind({g \in guide : g.id = row.tvg_id}), MT("ID (Exact)")),
          IF row.tvg_id = "" THEN Undefined
          ELSE hit(GuideFind({g \in guide : \/ includes(tid, toLowerCase(g.id))
                                            \/ includes(toLowerCase(g.id), tid)}),
                   MT("ID (Partial)")),
          IF row.name = <<>> THEN Undefined
          ELSE hit(GuideFind({g \in guide : LowerName(cleanName(g.display_name)) = cn}),
                   MT("Strict Clean")),
          IF row.name = <<>> \/ fuzzy = Undefined THEN Undefined
          ELSE [id |-> fuzzy.item.id, type |-> MT("Fuzzy (" \o toFixed2(fuzzy.score) \o ")")] >>

C12_FirstHit(tiers) ==
    IF \A i \in DOMAIN tiers : tiers[i] = Undefined THEN [id |-> NULL, type |-> NoType]
    ELSE tiers[CHOOSE i \in DOMAIN tiers :
                 tiers[i] # Undefined /\ \A j \in 1..(i - 1) : tiers[j] = Undefined]

\* C12: in the matching stage of processEpg a channel's result is the hit of the
\* first of the tiers confirmed existing match, manual override, exact id,
\* partial id, exact normalized name, fuzzy name that has one, and no match when
\* none has: no other tier decides.  Stated of every pass that changes the guide.
C12_Step ==
    epg_channels' # epg_channels =>
        \A c \in DOMAIN channels :
            LET r == C12_FirstHit(C12_Tiers(channels[c], c, epg_channels', manual_overrides))
            IN /\ channels'[c].matched_epg_id = r.id
               /\ channels'[c].match_type = r.type

C12_FirstListedTier == [][C12_Step]_vars

\* A channel that stays in the lineup keeps the number it has.
C13_Kept ==
    \A c \in DOMAIN channels \cap DOMAIN channels' :
        channels[c].channel_number # None =>
            channels'[c].channel_number = channels[c].channel_number

\* A number given out in this step was given to no other channel before, and
\* is above every number given out before.
C13_Fresh ==
    \A p \in numbered' \ numbered : \A q \in numbered :
        /\ p[2] = q[2] => p[1] = q[1]
        /\ p[2] > q[2]

\* C13: across playlist imports and matchChannelsToIptvOrg passes a display
\* number once assigned is never changed and never assigned to a different
\* channel later, also after its channel has left the lineup; the numbers are
\* handed out in strictly increasing order.
C13_NeverReassigned == [][C13_Kept /\ C13_Fresh]_vars

\* C14: after matchChannelsToIptvOrg every lineup channel, matched or not, has
\* a display number; one that had a number keeps it, and a number newly given
\* is at least 700 and differs from the number of every other channel.
C14_Step ==
    MatchChannelsToIptvOrg =>
        \A c \in DOMAIN channels' :
            /\ channels'[c].channel_number # None
            /\ channels[c].channel_number # None =>
                   channels'[c].channel_number = channels[c].channel_number
            /\ channels[c].channel_number = None =>
                   /\ channels'[c].channel_number >= STARTING_CHANNEL_NUMBER
                   /\ \A d \in DOMAIN channels' \ {c} :
                          channels'[d].channel_number # channels'[c].channel_number

ProgramsOf(programs, url) == SelectSeq(programs, LAMBDA p : p.source = url)
ChannelsOf(guide, url) == {g \in guide : g.source = url}

\* The source holds what one ingest of the feed leaves: the programmes of the
\* feed in their order, and one guide channel for every channel id of the feed.
HoldsFeed(url, feed) ==
    /\ Len(ProgramsOf(epg_programs, url)) = Len(feed.programs)
    /\ \A k \in 1..Len(feed.programs) :
          LET p == ProgramsOf(epg_programs, url)[k]
          IN p.channel_id = feed.programs[k].channel /\ p.start = feed.programs[k].start
             /\ p.title = feed.programs[k].title
    /\ {g.id : g \in ChannelsOf(epg_channels, url)}
           = {feed.channels[k].id : k \in 1..Len(feed.channels)}

\* C15: ingesting a feed again under the source that holds it leaves the source
\* with as many program rows and guide-channel rows as the one ingest left.
C15_Step ==
    \A url \in Urls, feed \in Feeds :
        HoldsFeed(url, feed) /\ ProcessEpg(url, feed) =>
            /\ Len(ProgramsOf(epg_programs', url)) = Len(ProgramsOf(epg_programs, url))
            /\ Cardinality(ChannelsOf(epg_channels', url))
                   = Cardinality(ChannelsOf(epg_channels, url))

C15_SameCounts == [][C15_Step]_vars

\* A source holds the three programmes and the one channel of a feed, beside
\* another source with rows of its own.
C15_Witness ==
    /\ Len(ProgramsOf(epg_programs, EpgUrl)) = 3
    /\ Cardinality(ChannelsOf(epg_channels, EpgUrl)) = 1
    /\ Len(epg_programs) > 3

\* C16: processEpg for one source neither deletes nor changes a guide-channel
\* row or a program row of another source, also when the two sources carry the
\* same channel id.
C16_Step ==
    \A url \in Urls :
        (\E feed \in Feeds : ProcessEpg(url, feed)) =>
            /\ SelectSeq(epg_programs', LAMBDA p : p.source # url)
                   = SelectSeq(epg_programs, LAMBDA p : p.source # url)
            /\ {g \in epg_channels' : g.source # url} = {g \in epg_channels : g.source # url}

C16_OtherSourcesKept == [][C16_Step]_vars

\* Two sources have a guide channel G1 and programmes of G1; the one whose
\* programmes come later in the table was ingested while the other had its rows.
C16_Witness ==
    \E a \in Urls : \E b \in Urls \ {a} :
        /\ \E g \in ChannelsOf(epg_channels, a) : g.id = "G1"
        /\ \E g \in ChannelsOf(epg_channels, b) : g.id = "G1"
        /\ \E i, j \in DOMAIN epg_programs :
              /\ i < j
              /\ epg_programs[i].source = b /\ epg_programs[i].channel_id = "G1"
              /\ epg_programs[j].source = a /\ epg_programs[j].channel_id = "G1"

\* A step of the enrichment pass, the titles it goes through, and the ones of
\* them it is done with at the end of the step without a lookup of their own.
EnrichStep == EnrichStart \/ \E outcome \in SearchOutcomes : SearchDone(outcome)
StepTitles == IF enrich.pc = "idle" THEN PendingTitles(epg_programs) ELSE enrich.titles
NoLookup ==
    (IF enrich.pc = "idle" THEN 1 ELSE enrich.i + 1)
        .. (IF enrich'.pc = "lookup" THEN enrich'.i - 1 ELSE Len(StepTitles))

\* The entries for a normalized title that are not older than seven days.
FreshEntries(cache, q, now) ==
    {r \in cache : r.title_normalized = q /\ now - r.cached_at <= CACHE_TTL_DAYS * DayMs}

\* C17: a title whose normalized form has a cache entry not older than 7 days
\* gets no external lookup and the stored outcome, a stored not-found included;
\* an entry older than 7 days counts as none, so that a title of two or more
\* normalized characters is done without a lookup only on an entry that is not.
C17_Step ==
    EnrichStep =>
        /\ enrich'.pc = "lookup" =>
               FreshEntries(tvmaze_cache', normalizeTitle(enrich'.titles[enrich'.i]), clock) = {}
        /\ \A j \in NoLookup :
               LET title == StepTitles[j]
                   q == normalizeTitle(title)
               IN /\ Len(q) >= 2 => FreshEntries(tvmaze_cache', q, clock) # {}
                  /\ \A r \in FreshEntries(tvmaze_cache', q, clock) :
                        \A k \in DOMAIN epg_programs' :
                            epg_programs'[k].title = title =>
                                /\ epg_programs'[k].enriched = 1
                                /\ epg_programs'[k].tmdb_id =
                                       IF r.tvmaze_id # None THEN r.tvmaze_id
                                       ELSE epg_programs[k].tmdb_id

C17_FreshEntryUsed == [][C17_Step]_vars

\* A pass that started exactly seven days after a not-found was cached for
\* "news" has marked the pending programmes of that title from the entry, which
\* is still the one of then.
C17_Witness ==
    /\ enrich.pc = "idle"
    /\ \E r \in tvmaze_cache :
          /\ r.title_normalized = GrabTitle /\ r.tvmaze_id = None
          /\ enrichLog.at - r.cached_at = CACHE_TTL_DAYS * DayMs
    /\ Len(epg_programs) = Len(enrichLog.start)
    /\ \E k \in DOMAIN epg_programs :
          /\ epg_programs[k].title = GrabTitle
          /\ enrichLog.start[k].title = GrabTitle /\ enrichLog.start[k].enriched = 0
          /\ epg_programs[k].enriched = 1 /\ epg_programs[k].tmdb_id = None

\* C18: when an enrichment pass completes, every program row that was not yet
\* enriched is marked enriched, whether its title was matched, not found or
\* skipped: no program is left pending.  Stated of the passes during which no
\* source is ingested.
C18_Step ==
    EnrichStep /\ enrich'.pc = "idle" /\ ~enrichLog'.ingested =>
        \A k \in DOMAIN epg_programs' : epg_programs'[k].enriched = 1

C18_NonePending == [][C18_Step]_vars

\* C19: normalizeTitle is idempotent: for the title of every program,
\* normalizing the normalized title gives the normalized title again. The
\* enrichment pass stores its cache entries under the normalized title, so
\* the same holds of every key of the cache.
C19_Idempotent ==
    /\ \A k \in DOMAIN epg_programs :
          normalizeTitle(normalizeTitle(epg_programs[k].title))
              = normalizeTitle(epg_programs[k].title)
    /\ \A entry \in tvmaze_cache :
          normalizeTitle(entry.title_normalized) = entry.title_normalized

\* The corpus rows that applyPreMatches finds for the name of a channel.
CandidatesOf(ch) == {m \in iptv_org_map : LowerName(m.name) = LowerName(ch.name)}

\* The language a pre-match of the channel aims at, "" if there is none.
TargetOf(ch) == IF ch.lang # "" THEN ch.lang ELSE env.preferred_lang

SameLanguage(m, target) ==
    m.lang # NULL /\ m.lang # "" /\ toLowerCase(m.lang) = toLowerCase(target)

NoLanguage(m) == m.lang = NULL \/ m.lang = ""

\* The channels that a playlist import leaves to the corpus tier of
\* applyPreMatches with several candidates and a target language: those
\* without a match before the import and without an override.
LanguageCases ==
    {c \in DOMAIN channels' :
        /\ c \in DOMAIN channels => channels[c].matched_epg_id = NULL
        /\ manual_overrides[c] = NULL
        /\ Cardinality(CandidatesOf(channels'[c])) >= 2
        /\ TargetOf(channels'[c]) # ""}

C20_Step ==
    (\E items \in LangPlaylists : FetchAndSavePlaylist(items)) =>
        \A c \in LanguageCases :
            LET ch == channels'[c]
                target == TargetOf(ch)
                same == {m \in CandidatesOf(ch) : SameLanguage(m, target)}
                none == {m \in CandidatesOf(ch) : NoLanguage(m)}
            IN /\ same # {} => ch.matched_epg_id \in {m.xmltv_id : m \in same}
               /\ same = {} /\ none # {} => ch.matched_epg_id \in {m.xmltv_id : m \in none}
               /\ same = {} /\ none = {} => ch.matched_epg_id = NULL
               /\ \A m \in CandidatesOf(ch) :
                      ~SameLanguage(m, target) /\ ~NoLanguage(m) => ch.matched_epg_id # m.xmltv_id

\* C20: when applyPreMatches finds several corpus candidates for the name of a
\* channel and there is a target language (the language of the channel, else
\* the preferred language), the channel is matched to a candidate of that
\* language (compared without regard to case); if no candidate has it, to a
\* candidate without a language; if there is none either, the channel stays
\* unmatched.  It is never matched to a candidate of another language.
C20_StrictLanguage == [][C20_Step]_vars

\* The corpus lists the name as English and as French, in that order, and not
\* without a language.  In one lineup c2, declared French, has the French
\* candidate; c3, declared "EN", has the English one; and c1, without a
\* language of its own under the preferred language "de", has no match.
C20_Witness ==
    /\ DOMAIN channels = {"c1", "c2", "c3"}
    /\ Cardinality(iptv_org_map) = 2
    /\ \E m \in iptv_org_map : m.xmltv_id = "X1" /\ m.lang = "en"
    /\ \E m \in iptv_org_map : m.xmltv_id = "X2" /\ m.lang = "fr"
    /\ channels["c2"].matched_epg_id = "X2"
    /\ channels["c3"].matched_epg_id = "X1"
    /\ channels["c1"].matched_epg_id = NULL
    /\ env.preferred_lang = "de"

C21_Step ==
    \A x \in DOMAIN task :
        GrabExit(x) /\ calls'[x][Len(calls[x])].res \in {"reject", "nofile"} =>
            LET site == run.sites[x][task[x].idx]
            IN /\ FailureCount(site_status', site) = FailureCount(site_status, site) + 1
               /\ task'[x].pc = "done" \/ task'[x].idx > task[x].idx

\* C21: when the grabber invocation of a candidate exits non-zero, or exits
\* zero without its output file, the failure_count of the candidate's site
\* is one more than before and the channel task is at a later candidate or
\* at its end.
C21_FailedAttemptCounted == [][C21_Step]_vars

\* The well-formed elements of a feed, in their order.
WellFormed(feed) ==
    [channels |-> SelectSeq(feed.channels, LAMBDA ch : ~MalformedChannel(ch)),
     programs |-> SelectSeq(feed.programs, LAMBDA p : ~MalformedProgramme(p))]

C22_Step ==
    \A url \in Urls, feed \in ParsedFeeds :
        ProcessEpg(url, feed) =>
            /\ ChannelsOf(epg_channels', url)
                   = InsertOrIgnore({}, url, WellFormed(feed).channels)
            /\ ProgramsOf(epg_programs', url) = ProgramRows(url, WellFormed(feed).programs)

\* C22: after a stream is ingested its source holds the rows of exactly the
\* well-formed elements of the stream: no row of a channel without id or of a
\* programme without channel or start, and a row for every other element.
C22_MalformedSkipped == [][C22_Step]_vars

\* The rows epg_programs has for a programme of a channel.
StoredTimes(programs, x, start) ==
    Cardinality({k \in DOMAIN programs :
                    programs[k].channel_id = x /\ programs[k].start = start})

C23_Step ==
    \A x \in DOMAIN task :
        IngestDone(x) /\ task'[x].result = "success" =>
            \A k \in DOMAIN epg_programs' :
                epg_programs'[k].channel_id = x =>
                    StoredTimes(epg_programs', x, epg_programs'[k].start) = 1

\* C23: when the grab of a channel ends in success, every program of the
\* channel is stored once, however often the channel was grabbed before.
C23_StoredOnce == [][C23_Step]_vars

\* The run has left its pool loop with every channel of its list processed
\* once: the task of each is done, its candidates were tried in increasing
\* order, and completed counts each channel once, under success or failure.
ProcessedOnce ==
    /\ \A i \in 1..Len(run.channels) :
          /\ task[run.channels[i]].pc = "done"
          /\ \A j, k \in 1..Len(calls[run.channels[i]]) :
                j < k => calls[run.channels[i]][j].idx < calls[run.channels[i]][k].idx
    /\ run.channelIndex = Len(run.channels)
    /\ run.activePromises = {}
    /\ run.completed = Len(run.channels)
    /\ run.completed = run.successful + run.failed

\* C24: when every grabber invocation returns, a run of grabMissingChannels
\* that has started ends, and whenever it has ended every channel with a
\* candidate was processed exactly once: completed is the number of these
\* channels and is successful + failed.
C24_RunEnds ==
    /\ run.active ~> ~run.active
    /\ [](runs > 0 /\ ~run.active => ProcessedOnce)

\* A run over X1 and X2 has ended, one channel grabbed and one failed, X1
\* after both of its candidates were tried.
C24_Witness ==
    /\ runs > 0 /\ ~run.active
    /\ run.completed = 2 /\ run.successful = 1 /\ run.failed = 1
    /\ Len(calls["X1"]) = 2

\* C25: startJob sets running and clears endTime and stats; completeJob(stats)
\* clears running, records endTime and stores the stats it was given;
\* getJobStatus gives a copy with the values of the job state, and an
\* assignment to a property of the object it gave never changes the job state.
C25_Step ==
    /\ (RunFullSync /\ ~currentJob.running) \/ GrabProcessEpg =>
          /\ currentJob'.running
          /\ currentJob'.startTime = clock
          /\ currentJob'.endTime = None
          /\ currentJob'.stats = NullStats
    /\ \A stats \in JobStats :
          SyncComplete(stats) =>
              /\ ~currentJob'.running
              /\ currentJob'.endTime = clock
              /\ currentJob'.stats = stats
              /\ currentJob'.startTime = currentJob.startTime
    /\ GetJobStatus => Held' = currentJob /\ currentJob' = currentJob
    /\ \A f \in JobFields : \A v \in FieldValues(f) :
          ModifyStatus(f, v) => currentJob' = currentJob /\ Held'[f] = v

C26_OneRun == grabs.sync + grabs.api <= 1

\* The titles of a pass that have been dealt with: all below the one whose
\* lookup is awaited, or all of them when the pass has returned.
Processed(e) == IF e.pc = "lookup" THEN e.i - 1 ELSE e.stats.totalPrograms

\* C27: when the lookup of a title raises an error, the pass does not abort:
\* the programs with the title are marked enriched, the title is counted as
\* not found (every title dealt with is counted once), and the pass goes on
\* with the titles that remain, up to the next lookup or to its end.
C27_Step ==
    SearchDone("error") =>
        LET title == enrich.titles[enrich.i]
        IN /\ \A k \in DOMAIN epg_programs :
                 epg_programs[k].title = title =>
                     /\ epg_programs'[k].enriched = 1
                     /\ epg_programs'[k].tmdb_id = epg_programs[k].tmdb_id
           /\ enrich'.stats.apiFailed = enrich.stats.apiFailed + 1
           /\ enrich'.stats.notFound >= enrich.stats.notFound + 1
           /\ enrich'.stats.enriched >= enrich.stats.enriched
           /\ enrich'.stats.enriched + enrich'.stats.notFound + enrich'.stats.skipped
                 = Processed(enrich')
           /\ Processed(enrich') > Processed(enrich)
           /\ enrich'.pc = "lookup" => enrich'.titles = enrich.titles
           /\ enrich'.pc = "idle" =>
                 /\ enrich'.stats.totalPrograms = Len(enrich.titles)
                 /\ \A j \in enrich.i..Len(enrich.titles) :
                       \A k \in DOMAIN epg_programs :
                          epg_programs[k].title = enrich.titles[j] =>
                              epg_programs'[k].enriched = 1

C27_ErrorGoesOn == [][C27_Step]_vars

\* The lookup of the first of two titles failed: its programs are marked, it is
\* counted as not found, and the pass awaits the lookup of the second.
C27_Witness ==
    /\ enrich.pc = "lookup" /\ enrich.i = 2
    /\ enrich.stats.apiFailed = 1 /\ enrich.stats.notFound = 1
    /\ tvmaze_cache = {}
    /\ \E k \in DOMAIN epg_programs :
          /\ epg_programs[k].title = enrich.titles[1]
          /\ epg_programs[k].enriched = 1 /\ epg_programs[k].tmdb_id = None

\* C28: after the matching stage of processEpg the matched guide id of every
\* lineup channel is NULL or the id of a guide channel that is stored; a
\* channel no tier matches is left without a reference.
C28_Step ==
    (\E url \in Urls : \E feed \in Feeds \cup GuideFeeds : ProcessEpg(url, feed)) =>
        \A c \in DOMAIN channels' :
            \/ channels'[c].matched_epg_id = NULL
            \/ \E g \in epg_channels' : g.id = channels'[c].matched_epg_id

C28_MatchedIdsInGuide == [][C28_Step]_vars

\* The guide id each consumer takes for lineup channel c in the present state:
\* the id applyPreMatches and the matching stage of processEpg write (or leave),
\* and COALESCE(mo.epg_id, c.matched_epg_id) as read by the grab selection of
\* runFullSync, by cleanupEpgData and by generatePlaylistAndEpg.
Consumers ==
    {"applyPreMatches", "processEpg", "runFullSync", "cleanupEpgData", "generatePlaylistAndEpg"}

ResolvedBy(consumer, c) ==
    IF consumer = "applyPreMatches"
    THEN Matched(channels[c],
                 PreMatch(channels[c], c, manual_overrides, iptv_org_map)).matched_epg_id
    ELSE IF consumer = "processEpg"
    THEN EpgMatch(channels[c], c, epg_channels, manual_overrides).id
    ELSE EffectiveId(channels, manual_overrides, c)

\* C29: every consumer applies the same precedence: a channel with an override
\* and no match resolves to the guide id of the override, and a channel with
\* an override that carries a confirmed match to another guide id resolves to
\* the confirmed match.
C29_OverridePrecedence ==
    \A c \in DOMAIN channels : \A consumer \in Consumers :
        manual_overrides[c] # NULL =>
            /\ channels[c].matched_epg_id = NULL =>
                  ResolvedBy(consumer, c) = manual_overrides[c]
            /\ (/\ channels[c].matched_epg_id # NULL
                /\ channels[c].match_type.confirmed
                /\ channels[c].matched_epg_id # manual_overrides[c]) =>
                  ResolvedBy(consumer, c) = channels[c].matched_epg_id

\* The task of x is within the statements of a flush: its BEGIN has run and
\* its COMMIT has not.
InFlush(x) == flush[x].pc \in {"insert", "commit"}

\* The rows of the batches of x that are durable or inserted.
RowsOf(rows, x, n) == {r \in rows : r[1] = x /\ r[2] = n}

\* C30: a flush is isolated and atomic: while the BEGIN / INSERT / COMMIT of
\* one task is under way no other task's flush statement runs on the
\* connection, and of every batch all rows are durable or none is.
C30_Step ==
    /\ \A x \in DOMAIN flush : \A y \in DOMAIN flush \ {x} :
          InFlush(x) => ~(FlushBegin(y) \/ FlushInsert(y) \/ FlushCommit(y))
    /\ \A x \in DOMAIN flush : \A n \in 1..MaxFlushes :
          RowsOf(persisted', x, n) \in {{}, Batch(x, n)}

C31_RunSurvives ==
    /\ ~run.raised
    /\ runs > 0 /\ ~run.active =>
          /\ run.channelIndex = Len(run.channels)
          /\ \A i \in 1..Len(run.channels) : task[run.channels[i]].pc = "done"

\* C32: a title without a fresh cache entry costs one delay of 100 ms and one
\* lookup, whose result, a title not found included, is stored in the cache
\* at once; a lookup is awaited only for a title that has no fresh entry, so
\* neither another raw title of the pass with the same normalized title nor a
\* later pass within the life of the entry looks it up again.
C32_Step ==
    /\ \A outcome \in {"show", "404"} :
          SearchDone(outcome) =>
              LET normalized == normalizeTitle(enrich.titles[enrich.i])
              IN /\ [title_normalized |-> normalized,
                      tvmaze_id |-> IF outcome = "show" THEN ShowId ELSE None,
                      genres |-> IF outcome = "show" THEN "Drama, Crime" ELSE "",
                      rating |-> IF outcome = "show" THEN "8.1" ELSE NULL,
                      cached_at |-> clock] \in tvmaze_cache'
                 /\ enrich'.pc = "lookup" =>
                       normalizeTitle(enrich'.titles[enrich'.i]) # normalized
    /\ EnrichStep =>
          /\ enrich'.stats.delayMs = enrich'.stats.apiCalls * 100
          /\ enrich'.pc = "lookup" =>
                /\ getCachedMetadata(tvmaze_cache', normalizeTitle(enrich'.titles[enrich'.i]),
                                     clock') = Undefined
                /\ enrich'.stats.apiCalls =
                      (IF EnrichStart THEN 0 ELSE enrich.stats.apiCalls) + 1
          /\ enrich'.pc = "idle" =>
                enrich'.stats.apiCalls = IF EnrichStart THEN 0 ELSE enrich.stats.apiCalls

C32_OneLookup == [][C32_Step]_vars

\* A pass over two raw titles with one normalized title has ended: the first
\* was looked up and not found, the second was answered by the entry cached
\* for the first.
C32_Witness ==
    /\ enrich.pc = "idle"
    /\ enrich.stats.totalPrograms = 2
    /\ enrich.stats.apiCalls = 1 /\ enrich.stats.delayMs = 100
    /\ enrich.stats.notFound = 2 /\ enrich.stats.fromCache = 1
    /\ \E r \in tvmaze_cache : r.tvmaze_id = None

\* C33: after updateIptvOrgData the table holds the candidates of the site
\* files just read and nothing else: every row is an element read in this
\* refresh, and every (site, site_id) listed for a guide id by an element with
\* a name and an xmltv_id has its row.
C33_Step ==
    \A entries \in SiteFiles :
        UpdateIptvOrgData(entries) =>
            /\ \A r \in iptv_org_map' : \E k \in DOMAIN entries : entries[k] = r
            /\ \A k \in DOMAIN entries :
                  entries[k].name # <<>> /\ entries[k].xmltv_id # NULL =>
                      \E r \in iptv_org_map' :
                          /\ r.xmltv_id = entries[k].xmltv_id
                          /\ r.site = entries[k].site
                          /\ r.site_id = entries[k].site_id

C33_CorpusRebuilt == [][C33_Step]_vars

\* C34: every program row in storage has stop later than start: a programme
\* element whose stop is not after its start is not stored.
C34_StopAfterStart ==
    \A k \in DOMAIN epg_programs : epg_programs[k].stop > epg_programs[k].start

\* C35: a step of an enrichment pass leaves the program rows in their number
\* and order, and changes of a row nothing but enriched, tmdb_id, and the
\* category and the rating that were empty: a category or rating the guide
\* gave, the channel, the source, the title, start and stop stay as they were.
C35_Step ==
    EnrichStep =>
        /\ DOMAIN epg_programs' = DOMAIN epg_programs
        /\ \A k \in DOMAIN epg_programs :
              LET old == epg_programs[k]
                  new == epg_programs'[k]
              IN /\ [new EXCEPT !.enriched = old.enriched, !.tmdb_id = old.tmdb_id,
                                !.category = old.category, !.rating = old.rating] = old
                 /\ old.category # "" => new.category = old.category
                 /\ old.rating # "" => new.rating = old.rating

C35_OnlyMetadata == [][C35_Step]_vars

\* A pass found the show of "news": the programme that had a category and a
\* rating of its own kept them, and the other programme of the title got the
\* ones of the show.
C35_Witness ==
    /\ enrich.pc = "idle"
    /\ \E j, k \in DOMAIN epg_programs :
          /\ epg_programs[j].title = GrabTitle /\ epg_programs[k].title = GrabTitle
          /\ epg_programs[j].tmdb_id = ShowId /\ epg_programs[k].tmdb_id = ShowId
          /\ epg_programs[j].category = "News" /\ epg_programs[j].rating = "TV-14"
          /\ epg_programs[k].category = "Drama, Crime" /\ epg_programs[k].rating = "8.1"

\* C36: when no runFullSync is under way and no grab or ingest is, the running
\* flag of the job is false: a runFullSync that started has reset it, also
\* when one of its phases threw, and a grab started outside runFullSync has
\* left it false; so the guard of a later runFullSync lets it start.
C36_FlagReset ==
    sync.pc = "idle" /\ grabs.sync = 0 /\ grabs.api = 0 => ~currentJob.running

\* C37: when a success entry with program_count n is written to the grab log
\* of a channel, n program rows of the channel from the file of that grab are
\* in storage.
C37_Step ==
    \A x \in DOMAIN task :
        (IngestDone(x) \/ IngestUnstored(x)) /\ task'[x].result = "success" =>
            LET entry == Last(grab_logs'[x])
                url == TempOutputPath(x, task[x].idx)
            IN /\ entry.success
               /\ Len(SelectSeq(epg_programs',
                                LAMBDA p : p.channel_id = x /\ p.source = url))
                      = entry.program_count

C37_SuccessIsStored == [][C37_Step]_vars

\* C38: when the ingest of a source fails, the guide-channel rows and the
\* program rows stored for that source before are left as they were.
C38_Step ==
    \A url \in Urls :
        ProcessEpgFails(url) =>
            /\ ProgramsOf(epg_programs', url) = ProgramsOf(epg_programs, url)
            /\ ChannelsOf(epg_channels', url) = ChannelsOf(epg_channels, url)

C38_FailureKeepsRows == [][C38_Step]_vars

\* C39: when a call of grabMissingChannels has returned, every id it was
\* given has one terminal outcome, a success or a failure, with an entry in
\* the grab log from this run, and the counters of the run add up to the ids.
C39_EveryIdSettled ==
    runs > 0 /\ ~run.active /\ ~run.raised =>
        /\ \A x \in run.ids :
              /\ task[x].result \in {"success", "failed"}
              /\ RunLog(x) # <<>>
        /\ run.successful + run.failed = Cardinality(run.ids)

\* C40: a call of fetchAndSavePlaylist that returns leaves the channel table
\* with one row for every distinct (url, name) item of the playlist, also when
\* the playlist lists an item twice, and with no row of an item the playlist
\* does not have.
C40_Step ==
    \A items \in EntryLists :
        FetchAndSaveEntries(items) /\ ~Rejects(channels, items) =>
            LET listed == {<<items[i].url, items[i].name>> : i \in DOMAIN items}
            IN /\ DOMAIN channels' = {generateId(e[1], e[2]) : e \in listed}
               /\ Cardinality(DOMAIN channels') = Cardinality(listed)

C40_OneRowPerEntry == [][C40_Step]_vars

====
